---------------------------- MODULE Spec2Model ----------------------------
(***************************************************************************)
(* A model of homebridge-openclaw (src/index.js): the resolution of the    *)
(* inbound API token, the UiClient that authenticates against Config UI X  *)
(* and caches its credential, and the REST routes that read and control    *)
(* devices through it.                                                     *)
(*                                                                         *)
(* Strings on which the code computes (trim, length, startsWith,           *)
(* substring, toLowerCase, includes) are sequences of one-character        *)
(* strings.  JavaScript values of several shapes are tagged records.       *)
(***************************************************************************)
EXTENDS Integers, Sequences, FiniteSets, TLC

VARIABLES
    \* --- the host: process environment, storage directory, config.json
    envToken,        \* process.env.OPENCLAW_HB_TOKEN
    tokenFile,       \* <storage>/.openclaw-token
    storageWritable, \* whether writeFileSync on the token file succeeds
    configToken,     \* config.token
    secretsFile,     \* <storage>/.uix-secrets
    authFile,        \* <storage>/auth.json
    cfgUser,         \* config.homebridgeUiUser
    cfgPass,         \* config.homebridgeUiPass
    \* --- OpenClawPlatform
    started,         \* the constructor has run
    apiToken,        \* the result of resolveApiToken: {token, source}
    \* --- UiClient fields
    uiUser, uiPass, secretKey, adminUser, instanceId, authMode, jwt, jwtExpires,
    \* --- the clock and the requests in flight
    now,             \* Date.now(), in ms since the process started
    ticks,           \* how many times the clock has been advanced
    req,             \* per slot: the request being served, or the last one served
    \* --- one call of a helper function, made on its own
    call,            \* the function and its arguments
    result           \* what it returned

hostVars   == <<envToken, tokenFile, storageWritable, configToken, secretsFile,
                authFile, cfgUser, cfgPass>>
clientVars == <<uiUser, uiPass, secretKey, adminUser, instanceId, authMode, jwt,
                jwtExpires>>
vars == <<hostVars, started, apiToken, clientVars, now, ticks, req, call, result>>

-----------------------------------------------------------------------------
(* Bounds of the model *)

\* Leading blanks and trailing newlines tried around a token file's content.
MaxPad == 1
\* Clock advances in one behaviour.
MaxTicks == 2
\* Entries in one batch request.
MaxBatch == 2
\* the longest snapshot handed to parseAccessories on its own
MaxList == 2

-----------------------------------------------------------------------------
(* Strings *)

Rep(c, n) == [i \in 1..n |-> c]

Whitespace == {" ", "\n", "\t"}

RECURSIVE TrimStart(_)
TrimStart(s) ==
    IF s # <<>> /\ Head(s) \in Whitespace THEN TrimStart(Tail(s)) ELSE s

RECURSIVE TrimEnd(_)
TrimEnd(s) ==
    IF s # <<>> /\ s[Len(s)] \in Whitespace
    THEN TrimEnd(SubSeq(s, 1, Len(s) - 1))
    ELSE s

\* String.prototype.trim
Trim(s) == TrimEnd(TrimStart(s))

\* String.prototype.startsWith
StartsWith(s, p) == Len(s) >= Len(p) /\ SubSeq(s, 1, Len(p)) = p

\* String.prototype.substring(k)
Substring(s, k) == IF k >= Len(s) THEN <<>> ELSE SubSeq(s, k + 1, Len(s))

\* String.prototype.slice(0, k)
Slice0(s, k) == IF k >= Len(s) THEN s ELSE SubSeq(s, 1, k)

-----------------------------------------------------------------------------
(* resolveApiToken *)

FileMinLen == 16
ConfigMinLen == 8
GeneratedLen == 48
DigestLen == 64

DefaultSeed ==
    <<"o","p","e","n","c","l","a","w","-","d","e","f","a","u","l","t","-",
      "s","e","e","d">>

HexDigits == <<"0","1","2","3","4","5","6","7","8","9","a","b","c","d","e","f">>

\* createHmac('sha256', key).update('openclaw-hb-api-token').digest('hex'):
\* 64 hexadecimal characters that depend on the key alone.  The hash is kept
\* abstract: keys of different lengths give different digests.
HmacHex(key) == Rep(HexDigits[(Len(key) % 16) + 1], DigestLen)

Unset == [set |-> FALSE]
SetTo(v) == [set |-> TRUE, v |-> v]
\* JavaScript truthiness of an optional string: set and not empty.
Truthy(o) == o.set /\ o.v # <<>>

FileAbsent == [st |-> "absent"]
FileUnreadable == [st |-> "unreadable"]
FileWith(d) == [st |-> "data", data |-> d]

\* JSON.parse(readFileSync(.uix-secrets)).secretKey, or the read/parse throws.
\* An empty secretKey stands for a missing one: both are falsy.
SecretsUnreadable == [st |-> "unreadable"]
SecretsWith(k) == [st |-> "json", secretKey |-> k]

\* Layer 4's seed.
SeedOf(secrets) ==
    IF secrets.st = "json" /\ secrets.secretKey # <<>>
    THEN secrets.secretKey
    ELSE DefaultSeed

Generated(secrets) == Slice0(HmacHex(SeedOf(secrets)), GeneratedLen)

\* Layer 2 accepts the token file.
FileUsable(file) == file.st = "data" /\ Len(Trim(file.data)) >= FileMinLen

\* Layer 3 accepts the config token.
ConfigUsable(cfg) == Truthy(cfg) /\ Len(cfg.v) >= ConfigMinLen

\* A variant of resolveApiToken that measures the file's content untrimmed.
ResolveApiTokenUntrimmed(env, file, cfg, secrets) ==
    IF Truthy(env) THEN [token |-> env.v, source |-> "env"]
    ELSE IF file.st = "data" /\ Len(file.data) >= FileMinLen
         THEN [token |-> Trim(file.data), source |-> "file"]
    ELSE IF ConfigUsable(cfg) THEN [token |-> cfg.v, source |-> "config"]
    ELSE [token |-> Generated(secrets), source |-> "auto"]

\* A variant of resolveApiToken whose read of the token file is not guarded:
\* an unreadable file makes the call throw.
ResolveApiTokenNoCatch(env, file, cfg, secrets) ==
    IF Truthy(env) THEN [token |-> env.v, source |-> "env"]
    ELSE IF file.st = "unreadable" THEN [token |-> <<>>, source |-> "threw"]
    ELSE IF FileUsable(file) THEN [token |-> Trim(file.data), source |-> "file"]
    ELSE IF ConfigUsable(cfg) THEN [token |-> cfg.v, source |-> "config"]
    ELSE [token |-> Generated(secrets), source |-> "auto"]

\* The {token, source} that resolveApiToken returns.
ResolveApiToken(env, file, cfg, secrets) ==
    IF Truthy(env) THEN [token |-> env.v, source |-> "env"]
    ELSE IF FileUsable(file) THEN [token |-> Trim(file.data), source |-> "file"]
    ELSE IF ConfigUsable(cfg) THEN [token |-> cfg.v, source |-> "config"]
    ELSE [token |-> Generated(secrets), source |-> "auto"]

\* A variant of resolveApiToken that does not persist what it generates.
TokenFileNotWritten(env, file, cfg, secrets, writable) == file

\* A variant of resolveApiToken that persists whatever token it returns.
TokenFileAlwaysWritten(env, file, cfg, secrets, writable) ==
    IF writable
    THEN FileWith(ResolveApiToken(env, file, cfg, secrets).token \o <<"\n">>)
    ELSE file

\* The token file after resolveApiToken: written only by layer 4, and only
\* when writeFileSync succeeds.
TokenFileAfter(env, file, cfg, secrets, writable) ==
    IF ResolveApiToken(env, file, cfg, secrets).source = "auto" /\ writable
    THEN FileWith(Generated(secrets) \o <<"\n">>)
    ELSE file

-----------------------------------------------------------------------------
(* UiClient: construction *)

\* JSON.parse(readFileSync(auth.json)), or the read/parse throws.  The
\* document is an array of {username, admin} records or something else.
AuthUnreadable == [st |-> "unreadable"]
AuthNotArray == [st |-> "json", isArray |-> FALSE]
AuthUsers(us) == [st |-> "json", isArray |-> TRUE, users |-> us]

\* createHash('sha256').update(key).digest('hex'), kept abstract like HmacHex.
Sha256Hex(key) == Rep(HexDigits[((Len(key) + 7) % 16) + 1], DigestLen)

\* users.find(u => u.admin): the index of the first administrator, or 0.
RECURSIVE FindAdmin(_, _)
FindAdmin(us, i) ==
    IF i > Len(us) THEN 0
    ELSE IF us[i].admin THEN i
    ELSE FindAdmin(us, i + 1)

\* this.secretKey after _detectAuthMode's first try block.
SecretKeyOf(secrets) ==
    IF secrets.st = "json" /\ secrets.secretKey # <<>>
    THEN SetTo(secrets.secretKey)
    ELSE Unset

\* this.instanceId after _detectAuthMode's first try block.
InstanceIdOf(secrets) ==
    IF secrets.st = "json" /\ secrets.secretKey # <<>>
    THEN SetTo(Sha256Hex(secrets.secretKey))
    ELSE Unset

\* this.adminUser after _detectAuthMode's second try block.
AdminUserOf(auth) ==
    IF auth.st = "json" /\ auth.isArray /\ FindAdmin(auth.users, 1) # 0
    THEN SetTo(auth.users[FindAdmin(auth.users, 1)].username)
    ELSE Unset

\* uiUser || null, uiPass || null
OrNull(o) == IF Truthy(o) THEN o ELSE Unset

\* A variant of _detectAuthMode that prefers the declared credentials.
DetectAuthModeLoginFirst(sk, admin, user, pass) ==
    IF Truthy(user) /\ Truthy(pass) THEN "login"
    ELSE IF Truthy(sk) /\ Truthy(admin) THEN "jwt-direct"
    ELSE "none"

\* The mode _detectAuthMode leaves in this.authMode.
DetectAuthMode(sk, admin, user, pass) ==
    IF Truthy(sk) /\ Truthy(admin) THEN "jwt-direct"
    ELSE IF Truthy(user) /\ Truthy(pass) THEN "login"
    ELSE "none"

-----------------------------------------------------------------------------
(* UiClient: credentials *)

\* token(): "refresh in 7h"
RefreshMs == 7 * 3600 * 1000
\* _signJwt: expiresIn '8h', in seconds
SignedValiditySec == 8 * 3600
\* _loginAuth: data.expires_in || 28800
DefaultExpiresIn == 28800
\* _loginAuth: ... - 60
LoginMarginSec == 60

NoJwt == [kind |-> "none"]

\* jwt.sign(payload, secretKey, {expiresIn: '8h'}) at instant t: the claims,
\* the key that signed them, and the iat/exp that jsonwebtoken adds (seconds).
SignJwt(admin, inst, sk, t) ==
    [kind |-> "signed", username |-> admin.v, name |-> admin.v, admin |-> TRUE,
     instanceId |-> inst.v, key |-> sk.v,
     iat |-> t \div 1000, exp |-> (t \div 1000) + SignedValiditySec]

\* What the hub answers to POST /api/auth/login with res.ok: an access token
\* issued to the user at instant t, and expires_in (seconds) or none.
HubToken(user, t) == [kind |-> "hub", username |-> user.v, iat |-> t \div 1000]
LoginData(user, t, e) == [access_token |-> HubToken(user, t), expires_in |-> e]

NoExpiresIn == [set |-> FALSE]
ExpiresIn(n) == [set |-> TRUE, n |-> n]

\* (data.expires_in || 28800): 0 and a missing field are both falsy.
ExpiresInOrDefault(e) == IF e.set /\ e.n # 0 THEN e.n ELSE DefaultExpiresIn

\* this.jwtExpires after _loginAuth at instant t.
LoginExpires(t, e) == t + (ExpiresInOrDefault(e) - LoginMarginSec) * 1000

\* token(): !this.jwt || Date.now() >= this.jwtExpires
NeedsRefreshStrict(j, exp, t) == j = NoJwt \/ t > exp

NeedsRefresh(j, exp, t) == j = NoJwt \/ t >= exp

-----------------------------------------------------------------------------
(* JavaScript values of a request body *)

VUndef == [t |-> "undefined"]
VBool(b) == [t |-> "boolean", b |-> b]
VNum(n) == [t |-> "number", n |-> n]
VNaN == [t |-> "NaN"]
VStr(s) == [t |-> "string", s |-> s]
\* An object with optional hue and saturation fields (VUndef: absent).
VObj(h, s) == [t |-> "object", hue |-> h, saturation |-> s]

Digits == <<"0","1","2","3","4","5","6","7","8","9">>
DigitVal(c) == (CHOOSE i \in 1..10 : Digits[i] = c) - 1

RECURSIVE DigitsValue(_, _)
DigitsValue(s, acc) ==
    IF s = <<>> THEN acc ELSE DigitsValue(Tail(s), acc * 10 + DigitVal(Head(s)))

AllDigits(s) == s # <<>> /\ \A i \in 1..Len(s) : \E d \in 1..10 : Digits[d] = s[i]

\* Number(string), for the decimal integers: blanks around are ignored, the
\* empty string is 0, an optional sign, and anything else is NaN.
StringToNumber(raw) ==
    LET s == Trim(raw) IN
    IF s = <<>> THEN VNum(0)
    ELSE IF AllDigits(s) THEN VNum(DigitsValue(s, 0))
    ELSE IF Head(s) = "-" /\ AllDigits(Tail(s)) THEN VNum(0 - DigitsValue(Tail(s), 0))
    ELSE IF Head(s) = "+" /\ AllDigits(Tail(s)) THEN VNum(DigitsValue(Tail(s), 0))
    ELSE VNaN

\* Number(v)
ToNumber(v) ==
    CASE v.t = "number" -> v
      [] v.t = "boolean" -> VNum(IF v.b THEN 1 ELSE 0)
      [] v.t = "null" -> VNum(0)
      [] v.t = "string" -> StringToNumber(v.s)
      [] OTHER -> VNaN

\* Boolean(v), and the truthiness that `v ? a : b` tests
ToBoolean(v) ==
    CASE v.t = "boolean" -> v.b
      [] v.t = "number" -> v.n # 0
      [] v.t = "string" -> v.s # <<>>
      [] v.t = "object" -> TRUE
      [] OTHER -> FALSE

\* A variant of clamp that bounds the value from above only.
clampAbove(v, min, max) ==
    LET x == ToNumber(v) IN
    IF x.t = "NaN" THEN VNaN ELSE VNum(IF max <= x.n THEN max ELSE x.n)

\* clamp(v, min, max): Math.max(min, Math.min(max, Number(v))); NaN stays NaN.
clamp(v, min, max) ==
    LET x == ToNumber(v) IN
    IF x.t = "NaN" THEN VNaN
    ELSE LET lower == IF max <= x.n THEN max ELSE x.n
         IN  VNum(IF min >= lower THEN min ELSE lower)

UpperCase == <<"A","B","C","D","E","F","G","H","I","J","K","L","M",
               "N","O","P","Q","R","S","T","U","V","W","X","Y","Z">>
LowerCase == <<"a","b","c","d","e","f","g","h","i","j","k","l","m",
               "n","o","p","q","r","s","t","u","v","w","x","y","z">>

LowerChar(c) ==
    IF \E i \in 1..26 : UpperCase[i] = c
    THEN LowerCase[CHOOSE i \in 1..26 : UpperCase[i] = c]
    ELSE c

\* String.prototype.toLowerCase
ToLowerCase(s) == [i \in 1..Len(s) |-> LowerChar(s[i])]

RECURSIVE NatToString(_)
NatToString(n) ==
    IF n < 10 THEN <<Digits[n + 1]>>
    ELSE NatToString(n \div 10) \o <<Digits[(n % 10) + 1]>>

\* String(v)
JsString(v) ==
    CASE v.t = "string" -> v.s
      [] v.t = "number" ->
            IF v.n < 0 THEN <<"-">> \o NatToString(0 - v.n) ELSE NatToString(v.n)
      [] v.t = "boolean" ->
            IF v.b THEN <<"t","r","u","e">> ELSE <<"f","a","l","s","e">>
      [] v.t = "null" -> <<"n","u","l","l">>
      [] v.t = "undefined" -> <<"u","n","d","e","f","i","n","e","d">>
      [] v.t = "NaN" -> <<"N","a","N">>
      [] OTHER -> <<"[","o","b","j","e","c","t"," ","O","b","j","e","c","t","]">>

-----------------------------------------------------------------------------
(* Action resolution *)

Op(c, v) == [characteristicType |-> c, value |-> v]

\* What resolveAction returns: null, one operation, or an array of them.
RNull == [t |-> "null"]
ROne(op) == [t |-> "op", op |-> op]
RArray(ops) == [t |-> "array", ops |-> ops]

\* A property of Object.prototype read through MODE_MAP[...].
VInherited == [t |-> "inherited"]

\* MODE_MAP[key]: the four own entries, the properties every object inherits
\* under an all-lower-case name, and undefined otherwise.
ModeMapGet(key) ==
    CASE key = <<"o","f","f">> -> VNum(0)
      [] key = <<"h","e","a","t">> -> VNum(1)
      [] key = <<"c","o","o","l">> -> VNum(2)
      [] key = <<"a","u","t","o">> -> VNum(3)
      [] key = <<"c","o","n","s","t","r","u","c","t","o","r">> -> VInherited
      [] key = <<"_","_","p","r","o","t","o","_","_">> -> VInherited
      [] OTHER -> VUndef

\* a ?? b
Coalesce(a, b) == IF a.t \in {"undefined", "null"} THEN b ELSE a

\* value?.hue, value?.saturation: only an object has the field.
FieldHue(v) == IF v.t = "object" THEN v.hue ELSE VUndef
FieldSaturation(v) == IF v.t = "object" THEN v.saturation ELSE VUndef

\* A variant of ColorOps that writes both characteristics whatever is given.
ColorOpsBoth(value) ==
    <<Op("Hue", ToNumber(FieldHue(value))),
      Op("Saturation", ToNumber(FieldSaturation(value)))>>

\* the operations of the 'color' case, hue first
ColorOps(value) ==
    (IF FieldHue(value) # VUndef
     THEN <<Op("Hue", ToNumber(FieldHue(value)))>> ELSE <<>>)
    \o
    (IF FieldSaturation(value) # VUndef
     THEN <<Op("Saturation", ToNumber(FieldSaturation(value)))>> ELSE <<>>)

\* A variant of resolveAction without a default case: every name is 'on'.
resolveActionNoDefault(action, value) == ROne(Op("On", VBool(ToBoolean(value))))

\* resolveAction(action, value); the action "" stands for a missing one.
resolveAction(action, value) ==
    CASE action \in {"on", "power"} -> ROne(Op("On", VBool(ToBoolean(value))))
      [] action = "toggle" -> ROne(Op("On", VBool(ToBoolean(value))))
      [] action \in {"brightness", "dim"} ->
            ROne(Op("Brightness", clamp(value, 0, 100)))
      [] action = "hue" -> ROne(Op("Hue", clamp(value, 0, 360)))
      [] action = "saturation" -> ROne(Op("Saturation", clamp(value, 0, 100)))
      [] action = "color" -> RArray(ColorOps(value))
      [] action \in {"colorTemperature", "ct"} ->
            ROne(Op("ColorTemperature", ToNumber(value)))
      [] action \in {"targetTemperature", "temperature"} ->
            ROne(Op("TargetTemperature", ToNumber(value)))
      [] action \in {"thermostatMode", "mode"} ->
            ROne(Op("TargetHeatingCoolingState",
                    Coalesce(ModeMapGet(ToLowerCase(JsString(value))),
                             ToNumber(value))))
      [] action = "lock" ->
            ROne(Op("LockTargetState", VNum(IF ToBoolean(value) THEN 1 ELSE 0)))
      [] action \in {"speed", "rotationSpeed"} ->
            ROne(Op("RotationSpeed", clamp(value, 0, 100)))
      [] action \in {"position", "targetPosition"} ->
            ROne(Op("TargetPosition", clamp(value, 0, 100)))
      [] action \in {"tilt", "targetTilt"} ->
            ROne(Op("TargetHorizontalTiltAngle", clamp(value, 0 - 90, 90)))
      [] action \in {"garageDoor", "garage"} ->
            ROne(Op("TargetDoorState", VNum(IF ToBoolean(value) THEN 0 ELSE 1)))
      [] OTHER -> RNull

\* A variant of !resolved in which an empty array is falsy too.
UnresolvedOrEmpty(resolved) ==
    resolved.t = "null" \/ (resolved.t = "array" /\ resolved.ops = <<>>)

\* !resolved: null is falsy; an operation and an array (even empty) are not.
Unresolved(resolved) == resolved.t = "null"

\* Array.isArray(resolved) ? resolved : [resolved]
OpsOf(resolved) == IF resolved.t = "array" THEN resolved.ops ELSE <<resolved.op>>

-----------------------------------------------------------------------------
(* Accessory data parsing *)

\* String.prototype.includes
Includes(s, sub) ==
    \E i \in 0..(Len(s) - Len(sub)) : SubSeq(s, i + 1, i + Len(sub)) = sub

StrSensor == <<"s","e","n","s","o","r">>
StrUnknown == <<"U","n","k","n","o","w","n">>
StrAccessoryInformation == <<"A","c","c","e","s","s","o","r","y","I","n","f","o","r","m","a","t","i","o","n">>
StrProtocolInformation == <<"P","r","o","t","o","c","o","l","I","n","f","o","r","m","a","t","i","o","n">>
\* the literal that parseAccessories compares lower-cased names with
StrSelfName == <<"o","p","e","n","c","l","a","w"," ","a","p","i">>

\* a || b on strings: the empty (or missing) string is falsy
OrStr(a, b) == IF a # <<>> THEN a ELSE b

\* the chain of tests that mapType makes on the lower-cased label t
Classify(t) ==
    LET has(kw) == Includes(t, kw)
    IN  IF has(<<"l","i","g","h","t">>) \/ has(<<"b","u","l","b">>)
        THEN <<"l","i","g","h","t","b","u","l","b">>
        ELSE IF has(<<"s","w","i","t","c","h">>) THEN <<"s","w","i","t","c","h">>
        ELSE IF has(<<"o","u","t","l","e","t">>) THEN <<"o","u","t","l","e","t">>
        ELSE IF has(<<"t","h","e","r","m","o","s","t","a","t">>)
        THEN <<"t","h","e","r","m","o","s","t","a","t">>
        ELSE IF has(<<"l","o","c","k">>) THEN <<"l","o","c","k">>
        ELSE IF has(<<"f","a","n">>) THEN <<"f","a","n">>
        ELSE IF has(<<"w","i","n","d","o","w">>) \/ has(<<"b","l","i","n","d">>)
                \/ has(<<"c","o","v","e","r","i","n","g">>)
        THEN <<"b","l","i","n","d","s">>
        ELSE IF has(<<"g","a","r","a","g","e">>) THEN <<"g","a","r","a","g","e">>
        ELSE IF has(<<"m","o","t","i","o","n">>) THEN <<"m","o","t","i","o","n">>
        ELSE IF has(<<"t","e","m","p","e","r","a","t","u","r","e">>) THEN StrSensor
        ELSE IF has(<<"h","u","m","i","d","i","t","y">>) THEN StrSensor
        ELSE IF has(<<"c","o","n","t","a","c","t">>) THEN StrSensor
        ELSE IF has(<<"c","a","m","e","r","a">>) THEN <<"c","a","m","e","r","a">>
        ELSE <<"o","t","h","e","r">>

\* A variant of mapType that tests the label as it is written.
mapTypeCaseSensitive(humanType) == Classify(humanType)

\* mapType(humanType); a missing label is the empty one
mapType(humanType) == Classify(ToLowerCase(humanType))

\* A service record of the hub's snapshot.  Missing string fields are empty
\* (missing and empty are both falsy); uniqueId "" is a missing id.
Service(uid, serviceName, infoName, humanType, type, values, chars, manu, model) ==
    [uniqueId |-> uid, serviceName |-> serviceName, infoName |-> infoName,
     humanType |-> humanType, type |-> type, values |-> values,
     serviceCharacteristics |-> chars, manufacturer |-> manu, model |-> model]

SvcName(svc) == OrStr(svc.serviceName, svc.infoName)
SvcType(svc) == OrStr(svc.humanType, OrStr(svc.type, StrUnknown))

\* the two `continue` tests of parseAccessories
Skipped(svc) ==
    \/ svc.uniqueId = ""
    \/ SvcType(svc) = StrAccessoryInformation
    \/ SvcType(svc) = StrProtocolInformation
    \/ ToLowerCase(SvcName(svc)) = StrSelfName

\* chars.filter(c => c.canWrite).map(c => c.type)
RECURSIVE WritableChars(_)
WritableChars(chars) ==
    IF chars = <<>> THEN <<>>
    ELSE (IF Head(chars).canWrite THEN <<Head(chars).type>> ELSE <<>>)
         \o WritableChars(Tail(chars))

DeviceOf(svc) ==
    [id |-> svc.uniqueId, name |-> SvcName(svc), type |-> mapType(SvcType(svc)),
     humanType |-> SvcType(svc), state |-> svc.values,
     characteristics |-> WritableChars(svc.serviceCharacteristics),
     manufacturer |-> svc.manufacturer, model |-> svc.model]

\* A hub snapshot: an array of service records, or some other JSON value.
RawArray(list) == [isArray |-> TRUE, list |-> list]
RawOther == [isArray |-> FALSE]

RECURSIVE ParseList(_)
ParseList(list) ==
    IF list = <<>> THEN <<>>
    ELSE (IF Skipped(Head(list)) THEN <<>> ELSE <<DeviceOf(Head(list))>>)
         \o ParseList(Tail(list))

parseAccessories(raw) == IF raw.isArray THEN ParseList(raw.list) ELSE <<>>

\* devices.filter(pred) and devices.find(d => d.id === id) of the routes
RECURSIVE FilterByType(_, _)
FilterByType(devices, type) ==
    IF devices = <<>> THEN <<>>
    ELSE (IF Head(devices).type = type THEN <<Head(devices)>> ELSE <<>>)
         \o FilterByType(Tail(devices), type)

RECURSIVE FindById(_, _, _)
FindById(devices, id, i) ==
    IF i > Len(devices) THEN 0
    ELSE IF devices[i].id = id THEN i
    ELSE FindById(devices, id, i + 1)

-----------------------------------------------------------------------------
(* Requests, responses and errors *)

PLUGIN_NAME == "homebridge-openclaw"
\* the name under which registerPlatform registers the gateway
ACCESSORY_NAME == <<"O","p","e","n","C","l","a","w","A","P","I">>
VERSION == "2.2.0"

StrBearer == <<"B","e","a","r","e","r"," ">>

\* The Error objects the UiClient throws, by the parts of their message.
ErrNoAuth == [what |-> "No authentication method available"]
ErrLogin(status, text) ==
    [what |-> "Config UI login failed", status |-> status, text |-> text]
ErrGet(status) == [what |-> "GET /api/accessories", status |-> status]
ErrPut(ctype, status, text) ==
    [what |-> "PUT", characteristicType |-> ctype, status |-> status, text |-> text]
\* fetch itself rejects: the hub cannot be reached
ErrFetch == [what |-> "fetch failed"]

\* What the hub does with one call.
HubOk(data) == [t |-> "ok", data |-> data]
HubFail(status, text) == [t |-> "fail", status |-> status, text |-> text]
HubDown == [t |-> "down"]
\* the hub's res.ok answer to a write
PutDone == [done |-> TRUE]

Resp(status, body) == [status |-> status, body |-> body]

Resp401 ==
    Resp(401, [error |-> "Unauthorized",
               message |-> [what |-> "Invalid or missing Bearer token."]])

\* A slot that has served nothing yet.
IdleReq ==
    [kind |-> "none", pc |-> "idle", hdr |-> Unset, id |-> "", type |-> <<>>,
     hasBody |-> FALSE, action |-> "", value |-> VUndef,
     devices |-> [isArray |-> FALSE],
     item |-> 0, ops |-> <<>>, results |-> <<>>, trace |-> <<>>, tok |-> NoJwt,
     resp |-> [status |-> 0], ret |-> [t |-> "none"]]

\* An incoming request: the route, the Authorization header, the path
\* parameter and the JSON body.
NewReq(kind, hdr, id, type, hasBody, action, value, devices) ==
    [IdleReq EXCEPT !.kind = kind, !.hdr = hdr, !.id = id, !.type = type,
                    !.hasBody = hasBody, !.action = action, !.value = value,
                    !.devices = devices]

\* A variant of the auth middleware that does not look at the scheme.
AuthorizedAnyScheme(hdr, apiTok) ==
    LET h == IF hdr.set THEN hdr.v ELSE <<>> IN
    Substring(h, 7) = apiTok

\* auth middleware: the request passes
Authorized(hdr, apiTok) ==
    LET h == IF hdr.set THEN hdr.v ELSE <<>> IN
    StartsWith(h, StrBearer) /\ Substring(h, 7) = apiTok

Finish(r, resp) == [r EXCEPT !.pc = "done", !.resp = resp]

\* The batch loop from entry r.item on, up to its next call of
\* setCharacteristic or to the response.
RECURSIVE BatchLoop(_)
BatchLoop(r) ==
    IF r.item > Len(r.devices.list)
    THEN Finish(r, Resp(200, [success |-> TRUE, results |-> r.results]))
    ELSE LET it == r.devices.list[r.item]
             resolved == resolveAction(it.action, it.value)
         IN  IF Unresolved(resolved)
             THEN BatchLoop([r EXCEPT
                    !.results = Append(@, [id |-> it.id, success |-> FALSE,
                                           error |-> [what |-> "Unknown action",
                                                      action |-> it.action]]),
                    !.item = @ + 1])
             ELSE IF OpsOf(resolved) = <<>>
             THEN BatchLoop([r EXCEPT
                    !.results = Append(@, [id |-> it.id, success |-> TRUE]),
                    !.item = @ + 1])
             ELSE [r EXCEPT !.ops = OpsOf(resolved), !.pc = "token"]

\* A variant of the handlers' catch blocks in which the batch's catch ends
\* the loop.
ThrowEndsBatch(r, err) ==
    CASE r.kind = "token" ->
            [r EXCEPT !.pc = "done", !.ret = [t |-> "threw", err |-> err]]
      [] r.kind = "health" ->
            Finish(r, Resp(200, [status |-> "degraded", plugin |-> PLUGIN_NAME,
                                 version |-> VERSION, devices |-> 0]))
      [] r.kind \in {"devices", "byType", "device"} ->
            Finish(r, Resp(502, [error |-> "Upstream error", message |-> err]))
      [] r.kind = "control" ->
            Finish(r, Resp(502, [error |-> "Control error", message |-> err]))
      [] r.kind = "batch" ->
            Finish(r, Resp(200, [success |-> TRUE,
                                 results |-> Append(r.results,
                                    [id |-> r.devices.list[r.item].id,
                                     success |-> FALSE, error |-> err])]))

\* A variant in which a failed write of a single control is skipped and the
\* loop goes on with the next operation.
ThrowSkipsOp(r, err) ==
    CASE r.kind = "token" ->
            [r EXCEPT !.pc = "done", !.ret = [t |-> "threw", err |-> err]]
      [] r.kind = "health" ->
            Finish(r, Resp(200, [status |-> "degraded", plugin |-> PLUGIN_NAME,
                                 version |-> VERSION, devices |-> 0]))
      [] r.kind \in {"devices", "byType", "device"} ->
            Finish(r, Resp(502, [error |-> "Upstream error", message |-> err]))
      [] r.kind = "control" ->
            IF Len(r.ops) > 1
            THEN [r EXCEPT !.ops = Tail(@), !.pc = "token"]
            ELSE Finish(r, Resp(502, [error |-> "Control error", message |-> err]))
      [] r.kind = "batch" ->
            BatchLoop([r EXCEPT
                !.results = Append(@, [id |-> r.devices.list[r.item].id,
                                       success |-> FALSE, error |-> err]),
                !.ops = <<>>,
                !.item = @ + 1])

\* A variant of the catch blocks in which /health reports the error as the
\* device routes do.
ThrowFailsHealth(r, err) ==
    CASE r.kind = "token" ->
            [r EXCEPT !.pc = "done", !.ret = [t |-> "threw", err |-> err]]
      [] r.kind \in {"health", "devices", "byType", "device"} ->
            Finish(r, Resp(502, [error |-> "Upstream error", message |-> err]))
      [] r.kind = "control" ->
            Finish(r, Resp(502, [error |-> "Control error", message |-> err]))
      [] r.kind = "batch" ->
            BatchLoop([r EXCEPT
                !.results = Append(@, [id |-> r.devices.list[r.item].id,
                                       success |-> FALSE, error |-> err]),
                !.ops = <<>>,
                !.item = @ + 1])

\* The awaited UiClient call of request r throws err.
Throw(r, err) ==
    CASE r.kind = "token" ->
            [r EXCEPT !.pc = "done", !.ret = [t |-> "threw", err |-> err]]
      [] r.kind = "health" ->
            Finish(r, Resp(200, [status |-> "degraded", plugin |-> PLUGIN_NAME,
                                 version |-> VERSION, devices |-> 0]))
      [] r.kind \in {"devices", "byType", "device"} ->
            Finish(r, Resp(502, [error |-> "Upstream error", message |-> err]))
      [] r.kind = "control" ->
            Finish(r, Resp(502, [error |-> "Control error", message |-> err]))
      [] r.kind = "batch" ->
            BatchLoop([r EXCEPT
                !.results = Append(@, [id |-> r.devices.list[r.item].id,
                                       success |-> FALSE, error |-> err]),
                !.ops = <<>>,
                !.item = @ + 1])

\* The awaited UiClient call of request r returns data.
Return(r, data) ==
    CASE r.kind = "health" ->
            Finish(r, Resp(200, [status |-> "ok", plugin |-> PLUGIN_NAME,
                                 version |-> VERSION,
                                 devices |-> Len(parseAccessories(data))]))
      [] r.kind = "devices" ->
            Finish(r, Resp(200, [success |-> TRUE,
                                 count |-> Len(parseAccessories(data)),
                                 devices |-> parseAccessories(data)]))
      [] r.kind = "byType" ->
            LET ds == FilterByType(parseAccessories(data), ToLowerCase(r.type))
            IN  Finish(r, Resp(200, [success |-> TRUE, count |-> Len(ds),
                                     devices |-> ds]))
      [] r.kind = "device" ->
            LET ds == parseAccessories(data)
                k == FindById(ds, r.id, 1)
            IN  IF k = 0
                THEN Finish(r, Resp(404, [error |-> "Not Found", id |-> r.id]))
                ELSE Finish(r, Resp(200, [success |-> TRUE, device |-> ds[k]]))
      [] r.kind = "control" ->
            LET rr == [r EXCEPT !.results = Append(@, data), !.ops = Tail(@)]
            IN  IF rr.ops = <<>>
                THEN Finish(rr, Resp(200, [success |-> TRUE, id |-> r.id,
                                           action |-> r.action,
                                           results |-> rr.results]))
                ELSE [rr EXCEPT !.pc = "token"]
      [] r.kind = "batch" ->
            IF Tail(r.ops) = <<>>
            THEN BatchLoop([r EXCEPT
                    !.results = Append(@, [id |-> r.devices.list[r.item].id,
                                           success |-> TRUE]),
                    !.ops = <<>>,
                    !.item = @ + 1])
            ELSE [r EXCEPT !.ops = Tail(@), !.pc = "token"]

\* The route handler of request r, from the auth middleware up to its first
\* call of the UiClient or to the response.
Handle(r, apiTok) ==
    CASE r.kind \in {"token", "health"} -> [r EXCEPT !.pc = "token"]
      [] r.kind # "token" /\ r.kind # "health" /\ ~Authorized(r.hdr, apiTok) ->
            Finish(r, Resp401)
      [] r.kind \in {"devices", "byType", "device"} /\ Authorized(r.hdr, apiTok) ->
            [r EXCEPT !.pc = "token"]
      [] r.kind = "control" /\ Authorized(r.hdr, apiTok) ->
            LET action == IF r.hasBody THEN r.action ELSE ""
                value == IF r.hasBody THEN r.value ELSE VUndef
                resolved == resolveAction(action, value)
            IN  IF action = ""
                THEN Finish(r, Resp(400, [error |-> "Bad Request",
                                          message |-> [what |-> "Missing action"]]))
                ELSE IF Unresolved(resolved)
                THEN Finish(r, Resp(400, [error |-> "Bad Request",
                                          message |-> [what |-> "Unknown action",
                                                       action |-> action]]))
                ELSE IF OpsOf(resolved) = <<>>
                THEN Finish(r, Resp(200, [success |-> TRUE, id |-> r.id,
                                          action |-> action, results |-> <<>>]))
                ELSE [r EXCEPT !.ops = OpsOf(resolved), !.pc = "token"]
      [] r.kind = "batch" /\ Authorized(r.hdr, apiTok) ->
            IF ~(r.hasBody /\ r.devices.isArray)
            THEN Finish(r, Resp(400, [error |-> "Bad Request",
                                      message |-> [what |-> "Expected devices array"]]))
            ELSE BatchLoop([r EXCEPT !.item = 1])

-----------------------------------------------------------------------------
(* The UiClient's steps of a request: token(), _loginAuth, the hub call *)

\* A variant of getAccessories / setCharacteristic that sends its call twice.
IssueTwice(r, tok) ==
    CASE r.kind = "token" ->
            [r EXCEPT !.pc = "done", !.ret = [t |-> "returned", tok |-> tok]]
      [] r.kind \in {"health", "devices", "byType", "device"} ->
            [r EXCEPT !.pc = "call", !.tok = tok,
                      !.trace = @ \o <<[ev |-> "GET", item |-> r.item, tok |-> tok],
                                       [ev |-> "GET", item |-> r.item, tok |-> tok]>>]
      [] r.kind \in {"control", "batch"} ->
            LET put == [ev |-> "PUT", tok |-> tok, item |-> r.item,
                        id |-> IF r.kind = "batch"
                               THEN r.devices.list[r.item].id ELSE r.id,
                        characteristicType |-> Head(r.ops).characteristicType,
                        value |-> Head(r.ops).value]
            IN  [r EXCEPT !.pc = "call", !.tok = tok, !.trace = @ \o <<put, put>>]

\* token() hands tok to its caller: the direct caller gets it back, while
\* getAccessories and setCharacteristic send their call with it.
Issue(r, tok) ==
    CASE r.kind = "token" ->
            [r EXCEPT !.pc = "done", !.ret = [t |-> "returned", tok |-> tok]]
      [] r.kind \in {"health", "devices", "byType", "device"} ->
            [r EXCEPT !.pc = "call", !.tok = tok,
                      !.trace = Append(@, [ev |-> "GET", item |-> r.item, tok |-> tok])]
      [] r.kind \in {"control", "batch"} ->
            [r EXCEPT !.pc = "call", !.tok = tok,
                      !.trace = Append(@,
                          [ev |-> "PUT", tok |-> tok, item |-> r.item,
                           id |-> IF r.kind = "batch"
                                  THEN r.devices.list[r.item].id ELSE r.id,
                           characteristicType |-> Head(r.ops).characteristicType,
                           value |-> Head(r.ops).value])]

IsWrite(r) == r.kind \in {"control", "batch"}

\* res.json() of a successful write: the hub's record of what it applied
PutResult(r) ==
    [uniqueId |-> IF r.kind = "batch" THEN r.devices.list[r.item].id ELSE r.id,
     characteristicType |-> Head(r.ops).characteristicType,
     value |-> Head(r.ops).value]

\* The error that a non-ok answer to the call in flight raises.
CallError(r, out) ==
    IF IsWrite(r)
    THEN ErrPut(Head(r.ops).characteristicType, out.status, out.text)
    ELSE ErrGet(out.status)

Slots == {1}

\* A variant of token() whose last branch returns the cache instead of
\* throwing.
tokenWithoutThrow(mode, j, exp, at, admin, inst, sk) ==
    CASE mode = "jwt-direct" ->
            IF NeedsRefresh(j, exp, at)
            THEN [t |-> "return", signed |-> TRUE,
                  jwt |-> SignJwt(admin, inst, sk, at), jwtExpires |-> at + RefreshMs]
            ELSE [t |-> "return", signed |-> FALSE, jwt |-> j, jwtExpires |-> exp]
      [] mode = "login" ->
            IF NeedsRefresh(j, exp, at)
            THEN [t |-> "login"]
            ELSE [t |-> "return", signed |-> FALSE, jwt |-> j, jwtExpires |-> exp]
      [] OTHER -> [t |-> "return", signed |-> FALSE, jwt |-> j, jwtExpires |-> exp]

\* What token() does when it is entered at instant at with the cache (j, exp):
\* it returns a credential (a cached one, or one it signs and caches), or it
\* goes on to _loginAuth, or it throws.
token(mode, j, exp, at, admin, inst, sk) ==
    CASE mode = "jwt-direct" ->
            IF NeedsRefresh(j, exp, at)
            THEN [t |-> "return", signed |-> TRUE,
                  jwt |-> SignJwt(admin, inst, sk, at), jwtExpires |-> at + RefreshMs]
            ELSE [t |-> "return", signed |-> FALSE, jwt |-> j, jwtExpires |-> exp]
      [] mode = "login" ->
            IF NeedsRefresh(j, exp, at)
            THEN [t |-> "login"]
            ELSE [t |-> "return", signed |-> FALSE, jwt |-> j, jwtExpires |-> exp]
      [] OTHER -> [t |-> "throw", err |-> ErrNoAuth]

\* A variant of _loginAuth that replaces a cached credential without
\* replacing its expiry.
loginAuthKeepsExpiry(j, exp, at, user, out) ==
    CASE out.t = "ok" ->
            [ok |-> TRUE, jwt |-> LoginData(user, at, out.data).access_token,
             jwtExpires |->
                IF j = NoJwt
                THEN LoginExpires(at, LoginData(user, at, out.data).expires_in)
                ELSE exp]
      [] out.t = "fail" ->
            [ok |-> FALSE, jwt |-> j, jwtExpires |-> exp,
             err |-> ErrLogin(out.status, out.text)]
      [] OTHER ->
            [ok |-> FALSE, jwt |-> j, jwtExpires |-> exp, err |-> ErrFetch]

\* A variant of _loginAuth that drops the cache when the login fails.
loginAuthForgets(j, exp, at, user, out) ==
    CASE out.t = "ok" ->
            [ok |-> TRUE, jwt |-> LoginData(user, at, out.data).access_token,
             jwtExpires |-> LoginExpires(at, LoginData(user, at, out.data).expires_in)]
      [] out.t = "fail" ->
            [ok |-> FALSE, jwt |-> NoJwt, jwtExpires |-> 0,
             err |-> ErrLogin(out.status, out.text)]
      [] OTHER ->
            [ok |-> FALSE, jwt |-> NoJwt, jwtExpires |-> 0, err |-> ErrFetch]

\* What _loginAuth does with the hub's answer out, received at instant at
\* with the cache (j, exp): the cache it leaves, and the error it throws.
loginAuth(j, exp, at, user, out) ==
    CASE out.t = "ok" ->
            [ok |-> TRUE, jwt |-> LoginData(user, at, out.data).access_token,
             jwtExpires |-> LoginExpires(at, LoginData(user, at, out.data).expires_in)]
      [] out.t = "fail" ->
            [ok |-> FALSE, jwt |-> j, jwtExpires |-> exp,
             err |-> ErrLogin(out.status, out.text)]
      [] OTHER ->
            [ok |-> FALSE, jwt |-> j, jwtExpires |-> exp, err |-> ErrFetch]

\* The events that a request's trace keeps: what the UiClient did for it.
EvSign(item, replaced) == [ev |-> "sign", item |-> item, replaced |-> replaced]
EvLogin(item) == [ev |-> "login", item |-> item]
EvLoginAnswer(item, out) ==
    IF out.t = "ok"
    THEN [ev |-> "loginAnswer", item |-> item, ok |-> TRUE, expires_in |-> out.data]
    ELSE [ev |-> "loginAnswer", item |-> item, ok |-> FALSE]
EvAnswer(item, out) ==
    CASE out.t = "fail" ->
            [ev |-> "answer", item |-> item, ok |-> FALSE,
             status |-> out.status, text |-> out.text]
      [] out.t = "ok" -> [ev |-> "answer", item |-> item, ok |-> TRUE, data |-> out.data]
      [] OTHER -> [ev |-> "answer", item |-> item, ok |-> FALSE]

\* token(), from its entry to its return, its throw or the login call
TokenStep(s) ==
    /\ started
    /\ req[s].pc = "token"
    /\ LET res == token(authMode, jwt, jwtExpires, now, adminUser, instanceId,
                        secretKey)
           r == req[s]
       IN  CASE res.t = "return" ->
                  /\ jwt' = res.jwt
                  /\ jwtExpires' = res.jwtExpires
                  /\ req' = [req EXCEPT ![s] =
                        Issue(IF res.signed
                              THEN [r EXCEPT !.trace = Append(@, EvSign(r.item, jwt))]
                              ELSE r,
                              res.jwt)]
             [] res.t = "login" ->
                  /\ UNCHANGED <<jwt, jwtExpires>>
                  /\ req' = [req EXCEPT ![s].pc = "login",
                                        ![s].trace = Append(@, EvLogin(r.item))]
             [] OTHER ->
                  /\ UNCHANGED <<jwt, jwtExpires>>
                  /\ req' = [req EXCEPT ![s] = Throw(r, res.err)]
    /\ UNCHANGED <<call, result, hostVars, started, apiToken, uiUser, uiPass, secretKey,
                   adminUser, instanceId, authMode, now, ticks>>

\* _loginAuth, from the hub's answer to its return or its throw
LoginResponse(s, out) ==
    /\ req[s].pc = "login"
    /\ LET res == loginAuth(jwt, jwtExpires, now, uiUser, out)
           r == [req[s] EXCEPT !.trace = Append(@, EvLoginAnswer(req[s].item, out))]
       IN  /\ jwt' = res.jwt
           /\ jwtExpires' = res.jwtExpires
           /\ req' = [req EXCEPT ![s] =
                        IF res.ok THEN [r EXCEPT !.pc = "loginDone"]
                        ELSE Throw(r, res.err)]
    /\ UNCHANGED <<call, result, hostVars, started, apiToken, uiUser, uiPass, secretKey,
                   adminUser, instanceId, authMode, now, ticks>>

\* token() resumes after `await this._loginAuth()`: return this.jwt
LoginReturn(s) ==
    /\ req[s].pc = "loginDone"
    /\ req' = [req EXCEPT ![s] = Issue(req[s], jwt)]
    /\ UNCHANGED <<call, result, hostVars, started, apiToken, clientVars, now, ticks>>

\* A variant of getAccessories / setCharacteristic that drops the cached
\* credential when the hub does not answer with success.
CallResponseInvalidates(s, out) ==
    /\ req[s].pc = "call"
    /\ out.t = "ok" => (IsWrite(req[s]) <=> out.data = PutDone)
    /\ LET r == [req[s] EXCEPT !.trace = Append(@, EvAnswer(req[s].item, out))]
       IN  req' = [req EXCEPT ![s] =
                     CASE out.t = "ok" ->
                            Return(r, IF IsWrite(r) THEN PutResult(r) ELSE out.data)
                       [] out.t = "fail" -> Throw(r, CallError(r, out))
                       [] OTHER -> Throw(r, ErrFetch)]
    /\ jwt' = IF out.t = "ok" THEN jwt ELSE NoJwt
    /\ jwtExpires' = IF out.t = "ok" THEN jwtExpires ELSE 0
    /\ UNCHANGED <<call, result, hostVars, started, apiToken, uiUser, uiPass, secretKey,
                   adminUser, instanceId, authMode, now, ticks>>

\* getAccessories / setCharacteristic, from the hub's answer to the return or
\* the throw, and the route handler up to its next call or to the response
CallResponse(s, out) ==
    /\ req[s].pc = "call"
    /\ out.t = "ok" => (IsWrite(req[s]) <=> out.data = PutDone)
    /\ LET r == [req[s] EXCEPT !.trace = Append(@, EvAnswer(req[s].item, out))]
       IN  req' = [req EXCEPT ![s] =
                     CASE out.t = "ok" ->
                            Return(r, IF IsWrite(r) THEN PutResult(r) ELSE out.data)
                       [] out.t = "fail" -> Throw(r, CallError(r, out))
                       [] OTHER -> Throw(r, ErrFetch)]
    /\ UNCHANGED <<call, result, hostVars, started, apiToken, clientVars, now, ticks>>

-----------------------------------------------------------------------------
(* The inputs tried *)

SampleKey == <<"k","3","y">>
StrRoot == <<"r","o","o","t">>
StrUser == <<"u","i">>
StrPass == <<"p","w">>
StrLamp == <<"L","a","m","p">>
StrLightbulb == <<"L","i","g","h","t","b","u","l","b">>
StrSwitch == <<"S","w","i","t","c","h">>
StrTempSensor == <<"T","e","m","p","e","r","a","t","u","r","e"," ","S","e","n","s","o","r">>

User(name, admin) == [username |-> name, admin |-> admin]

\* clock advances: half the refresh period, so that a credential cached at
\* one instant is met again half-way to its cached expiry and exactly at it
ClockSteps == {RefreshMs \div 2}

\* expires_in of a login answer: missing, zero, below the margin, and the
\* value that makes the cached expiry fall RefreshMs after the login
ExpiresIns ==
    {NoExpiresIn, ExpiresIn(0), ExpiresIn(LoginMarginSec \div 2),
     ExpiresIn((RefreshMs \div 1000) + LoginMarginSec)}

HubFailures == {HubFail(401, "denied"), HubDown}

\* Sample service records of a snapshot: an information service, a lamp, a
\* service named 'OpenClaw API', one without uniqueId, a sensor named only by
\* its accessory information, a service named 'OpenClawAPI', and a protocol
\* service typed by its humanType.
Services ==
    <<Service("d3", <<>>, StrLamp, <<>>, StrAccessoryInformation,
              [On |-> VBool(FALSE)], <<>>, "Acme", "L1"),
      Service("d1", StrLamp, <<>>, StrLightbulb, <<>>, [On |-> VBool(TRUE)],
              <<[type |-> "On", canWrite |-> TRUE],
                [type |-> "Name", canWrite |-> FALSE]>>, "Acme", "L1"),
      Service("d2", <<"O","p","e","n","C","l","a","w"," ","A","P","I">>, <<>>,
              StrSwitch, <<>>, [On |-> VBool(FALSE)],
              <<[type |-> "On", canWrite |-> TRUE]>>, "", ""),
      Service("", StrLamp, <<>>, StrSwitch, <<>>, [On |-> VBool(FALSE)], <<>>, "", ""),
      Service("d4", <<>>, StrTempSensor, <<>>, StrTempSensor,
              [On |-> VBool(FALSE)], <<>>, "", ""),
      Service("d5", <<"O","p","e","n","C","l","a","w","A","P","I">>, <<>>,
              StrSwitch, <<>>, [On |-> VBool(FALSE)],
              <<[type |-> "On", canWrite |-> TRUE]>>, "", ""),
      Service("d6", StrLamp, <<>>, StrProtocolInformation, StrSwitch,
              [On |-> VBool(FALSE)], <<>>, "", "")>>

\* the snapshots the hub answers a read with
Snapshots == {RawArray(SubSeq(Services, 1, 5)), RawOther}

\* what the hub may answer to a login call: res.ok with some expires_in, a
\* non-ok status, or no answer
LoginAnswers == {HubOk(e) : e \in ExpiresIns} \cup HubFailures

\* what the hub may answer to a read (a snapshot) or to a write (done)
CallAnswers == {HubOk(x) : x \in Snapshots \cup {PutDone}} \cup HubFailures

Item(id, action, value) == [id |-> id, action |-> action, value |-> value]

Bodies ==
    {Item("d1", "", VUndef),
     Item("d1", "dance", VNum(1)),
     Item("d1", "on", VBool(TRUE)),
     Item("d1", "thermostatMode", VStr(<<"H","e","a","t">>)),
     Item("d1", "color", VObj(VNum(240), VNum(50))),
     Item("d1", "color", VObj(VUndef, VUndef))}

Items ==
    {Item("d1", "on", VBool(TRUE)),
     Item("d2", "dance", VNum(1)),
     Item("d3", "color", VObj(VNum(240), VNum(50)))}

RECURSIVE SeqsUpTo(_, _)
SeqsUpTo(S, n) ==
    IF n = 0 THEN {<<>>}
    ELSE LET shorter == SeqsUpTo(S, n - 1)
         IN  shorter \cup {Append(q, x) : q \in shorter, x \in S}

\* the lists tried as req.body.devices: up to MaxBatch entries, none repeated
Batches ==
    {l \in SeqsUpTo(Items, MaxBatch) :
        \A i, j \in DOMAIN l : i # j => l[i] # l[j]}

NoDevices == [isArray |-> FALSE]

\* Some headers that do not pass the auth middleware.
BadHeaders(apiTok) ==
    {Unset, SetTo(apiTok), SetTo(ToLowerCase(StrBearer) \o apiTok),
     SetTo(StrBearer \o apiTok \o <<"x">>)}

\* Every route with the good header and each shape of parameter and body;
\* every route with each bad header.
Requests(apiTok) ==
    LET g == SetTo(StrBearer \o apiTok) IN
    {NewReq("token", Unset, "", <<>>, FALSE, "", VUndef, NoDevices)}
    \cup {NewReq("health", h, "", <<>>, FALSE, "", VUndef, NoDevices) :
            h \in {Unset, g}}
    \cup {NewReq("devices", g, "", <<>>, FALSE, "", VUndef, NoDevices)}
    \cup {NewReq("byType", g, "", ty, FALSE, "", VUndef, NoDevices) :
            ty \in {StrLightbulb, StrSensor}}
    \cup {NewReq("device", g, id, <<>>, FALSE, "", VUndef, NoDevices) :
            id \in {"d1", "d2"}}
    \cup {NewReq("control", g, b.id, <<>>, TRUE, b.action, b.value, NoDevices) :
            b \in Bodies}
    \cup {NewReq("control", g, "d1", <<>>, FALSE, "", VUndef, NoDevices)}
    \cup {NewReq("batch", g, "", <<>>, TRUE, "", VUndef, RawArray(l)) :
            l \in Batches}
    \cup {NewReq("batch", g, "", <<>>, hb, "", VUndef, NoDevices) : hb \in BOOLEAN}
    \cup {NewReq("devices", h, "", <<>>, FALSE, "", VUndef, NoDevices) :
            h \in BadHeaders(apiTok)}
    \cup {NewReq("byType", h, "", StrSensor, FALSE, "", VUndef, NoDevices) :
            h \in BadHeaders(apiTok)}
    \cup {NewReq("device", h, "d1", <<>>, FALSE, "", VUndef, NoDevices) :
            h \in BadHeaders(apiTok)}
    \cup {NewReq("control", h, "d1", <<>>, TRUE, "on", VBool(TRUE), NoDevices) :
            h \in BadHeaders(apiTok)}
    \cup {NewReq("batch", h, "", <<>>, TRUE, "", VUndef, RawArray(<<Item("d1", "on", VBool(TRUE))>>)) :
            h \in BadHeaders(apiTok)}

-----------------------------------------------------------------------------
(* The server *)

AuthRoot == AuthUsers(<<User(<<"g","u","e","s","t">>, FALSE), User(StrRoot, TRUE)>>)
\* the first administrator of the document has an empty username
AuthNameless == AuthUsers(<<User(<<>>, TRUE), User(StrRoot, TRUE)>>)

\* The hosts tried: <<.uix-secrets, auth.json, homebridgeUiUser,
\* homebridgeUiPass>>, with and without each of the inputs on which the
\* UiClient decides how to authenticate.
Hosts ==
    {<<SecretsWith(SampleKey), AuthRoot, Unset, Unset>>,
     <<SecretsWith(SampleKey), AuthRoot, SetTo(StrUser), SetTo(StrPass)>>,
     <<SecretsWith(SampleKey), AuthUnreadable, SetTo(StrUser), SetTo(StrPass)>>,
     <<SecretsUnreadable, AuthNameless, SetTo(StrUser), SetTo(StrPass)>>,
     <<SecretsWith(SampleKey), AuthNameless, SetTo(StrUser), SetTo(<<>>)>>,
     <<SecretsWith(<<>>), AuthRoot, Unset, SetTo(StrPass)>>,
     <<SecretsUnreadable, AuthNotArray, Unset, Unset>>}

InitHost ==
    /\ envToken = Unset
    /\ tokenFile = FileAbsent
    /\ storageWritable = TRUE
    /\ configToken = Unset
    /\ \E h \in Hosts :
          /\ secretsFile = h[1]
          /\ authFile = h[2]
          /\ cfgUser = h[3]
          /\ cfgPass = h[4]

\* Before the platform is constructed nothing is resolved; the UiClient's
\* fields are given the values its constructor starts from.
InitRest ==
    /\ started = FALSE
    /\ apiToken = [token |-> <<>>, source |-> "unresolved"]
    /\ uiUser = Unset /\ uiPass = Unset
    /\ secretKey = Unset /\ adminUser = Unset /\ instanceId = Unset
    /\ authMode = "none"
    /\ jwt = NoJwt /\ jwtExpires = 0
    /\ now = 0 /\ ticks = 0

\* No helper function is called on its own.
Init ==
    /\ InitHost /\ InitRest /\ req = [s \in Slots |-> IdleReq]
    /\ call = [fn |-> "none"] /\ result = [t |-> "none"]

\* new OpenClawPlatform(log, config, api): resolveApiToken, then new UiClient
Construct ==
    /\ ~started
    /\ started' = TRUE
    /\ apiToken' = ResolveApiToken(envToken, tokenFile, configToken, secretsFile)
    /\ tokenFile' = TokenFileAfter(envToken, tokenFile, configToken, secretsFile,
                                   storageWritable)
    /\ uiUser' = OrNull(cfgUser)
    /\ uiPass' = OrNull(cfgPass)
    /\ secretKey' = SecretKeyOf(secretsFile)
    /\ instanceId' = InstanceIdOf(secretsFile)
    /\ adminUser' = AdminUserOf(authFile)
    /\ authMode' = DetectAuthMode(SecretKeyOf(secretsFile), AdminUserOf(authFile),
                                  OrNull(cfgUser), OrNull(cfgPass))
    /\ UNCHANGED <<call, result, envToken, storageWritable, configToken, secretsFile, authFile,
                   cfgUser, cfgPass, jwt, jwtExpires, now, ticks, req>>

\* A request arrives (or _startServer calls token()) on a free slot.
Start(s, rq) ==
    /\ started
    /\ req[s].pc = "idle"
    /\ req' = [req EXCEPT ![s] = Handle(rq, apiToken.token)]
    /\ UNCHANGED <<call, result, hostVars, started, apiToken, clientVars, now, ticks>>

\* The response has been sent (or token() has returned): the request is over.
Release(s) ==
    /\ req[s].pc = "done"
    /\ req' = [req EXCEPT ![s] = IdleReq]
    /\ UNCHANGED <<call, result, hostVars, started, apiToken, clientVars, now, ticks>>

\* Time passes between two requests.
Tick(d) ==
    /\ started
    /\ \A o \in Slots : req[o].pc = "idle"
    /\ ticks < MaxTicks
    /\ now' = now + d
    /\ ticks' = ticks + 1
    /\ UNCHANGED <<call, result, hostVars, started, apiToken, clientVars, req>>

Next ==
    \/ Construct
    \/ \E d \in ClockSteps : Tick(d)
    \/ \E s \in Slots :
         \/ \E rq \in Requests(apiToken.token) : Start(s, rq)
         \/ Release(s)
         \/ TokenStep(s)
         \/ \E out \in LoginAnswers : LoginResponse(s, out)
         \/ LoginReturn(s)
         \/ \E out \in CallAnswers : CallResponse(s, out)

Spec == Init /\ [][Next]_vars

-----------------------------------------------------------------------------
(* Concurrent token() calls *)

\* Two calls of token() in flight at once, as two requests being served
\* make them; each is suspended at the awaits of _loginAuth.
RaceSlots == {1, 2}

InitRace ==
    /\ InitHost /\ InitRest /\ req = [s \in RaceSlots |-> IdleReq]
    /\ call = [fn |-> "none"] /\ result = [t |-> "none"]

\* Time passes while calls are in flight.
Elapse(d) ==
    /\ started
    /\ ticks < MaxTicks
    /\ now' = now + d
    /\ ticks' = ticks + 1
    /\ UNCHANGED <<call, result, hostVars, started, apiToken, clientVars, req>>

NextRace ==
    \/ Construct
    \/ \E d \in ClockSteps : Elapse(d)
    \/ \E s \in RaceSlots :
         \/ Start(s, NewReq("token", Unset, "", <<>>, FALSE, "", VUndef, NoDevices))
         \/ Release(s)
         \/ TokenStep(s)
         \/ \E out \in LoginAnswers : LoginResponse(s, out)
         \/ LoginReturn(s)

SpecRace == InitRace /\ [][NextRace]_vars

-----------------------------------------------------------------------------
(* resolveApiToken alone, over many hosts *)

\* The hosts tried.  Token files: a body of "f" around the length that layer
\* 2 asks for, behind up to MaxPad blanks and before up to MaxPad newlines.
InitToken ==
    /\ envToken \in {Unset, SetTo(<<>>), SetTo(<<"e">>), SetTo(Rep("e", FileMinLen))}
    /\ tokenFile \in
          {FileAbsent, FileUnreadable}
          \cup {FileWith(Rep(" ", lead) \o Rep("f", n) \o Rep("\n", trail)) :
                  lead \in 0..MaxPad, trail \in 0..MaxPad,
                  n \in {0, FileMinLen - 2, FileMinLen - 1, FileMinLen}}
    /\ storageWritable \in BOOLEAN
    /\ configToken \in
          {Unset, SetTo(<<>>), SetTo(Rep(" ", ConfigMinLen))}
          \cup {SetTo(Rep("c", n)) : n \in {ConfigMinLen - 1, ConfigMinLen, FileMinLen}}
    /\ secretsFile \in {SecretsUnreadable, SecretsWith(<<>>), SecretsWith(SampleKey)}
    /\ authFile = AuthUnreadable
    /\ cfgUser = Unset
    /\ cfgPass = Unset
    /\ InitRest
    /\ req = [s \in Slots |-> IdleReq]
    /\ call = [fn |-> "none"] /\ result = [t |-> "none"]

\* One call of resolveApiToken(config, storagePath, log) on the host as it is.
Resolve ==
    /\ apiToken' = ResolveApiToken(envToken, tokenFile, configToken, secretsFile)
    /\ tokenFile' = TokenFileAfter(envToken, tokenFile, configToken, secretsFile,
                                   storageWritable)
    /\ UNCHANGED <<call, result, envToken, storageWritable, configToken, secretsFile, authFile,
                   cfgUser, cfgPass, started, clientVars, now, ticks, req>>

SpecToken == InitToken /\ [][Resolve]_vars

-----------------------------------------------------------------------------
(* The helper functions alone: parseAccessories, mapType, resolveAction, *)
(* and the control handlers up to their first call of the UiClient       *)

\* One call of a helper function (outside any request), not yet returned.
\* labels: none, one without a keyword, each keyword of mapType in lower case
\*   and capitalised, and every two capitalised keywords in a row;
\* snapshots: every list of at most MaxList sample records, and a value that
\*   is not an array;
\* actions: the names of the switch, a missing name, and names that are not
\*   cases of it (two of them names of Object.prototype);
\* values: numbers below, at, between and above every bound of a range
\*   action, the other primitives (among the strings the four thermostat
\*   modes in several capitalisations, a numeral, an unknown label and the
\*   name of a property that every object inherits), and objects with each
\*   of hue and saturation absent, null, a number or a numeric string;
\* control requests: a single control of each action and value, and a batch
\*   of one such entry, with the bearer token the routes were set up with.
InitPure ==
    LET keywords ==
            {<<"l","i","g","h","t">>, <<"b","u","l","b">>, <<"s","w","i","t","c","h">>,
             <<"o","u","t","l","e","t">>, <<"t","h","e","r","m","o","s","t","a","t">>,
             <<"l","o","c","k">>, <<"f","a","n">>, <<"w","i","n","d","o","w">>,
             <<"b","l","i","n","d">>, <<"c","o","v","e","r","i","n","g">>,
             <<"g","a","r","a","g","e">>, <<"m","o","t","i","o","n">>,
             <<"t","e","m","p","e","r","a","t","u","r","e">>,
             <<"h","u","m","i","d","i","t","y">>, <<"c","o","n","t","a","c","t">>,
             <<"c","a","m","e","r","a">>}
        cap(k) == <<UpperCase[CHOOSE i \in 1..26 : LowerCase[i] = k[1]]>> \o Tail(k)
        labels ==
            {<<>>, StrUnknown}
            \cup keywords
            \cup {cap(k) : k \in keywords}
            \cup {cap(k1) \o <<" ">> \o cap(k2) : k1, k2 \in keywords}
        snapshots ==
            {RawArray(l) : l \in SeqsUpTo({Services[i] : i \in DOMAIN Services}, MaxList)}
            \cup {RawOther}
        actions ==
            {"on", "power", "toggle", "brightness", "dim", "hue", "saturation",
             "color", "colorTemperature", "ct", "targetTemperature", "temperature",
             "thermostatMode", "mode", "lock", "speed", "rotationSpeed", "position",
             "targetPosition", "tilt", "targetTilt", "garageDoor", "garage",
             "", "dance", "On", "constructor", "__proto__"}
        field == {VUndef, [t |-> "null"], VNum(240), VNum(50), VNum(400),
                  VStr(<<"2","4","0">>)}
        values ==
            {VNum(n) : n \in {0 - 91, 0 - 90, 0 - 1, 0, 50, 90, 91, 100, 101, 360, 361}}
            \cup {VUndef, [t |-> "null"], VNaN, VBool(TRUE), VBool(FALSE), VStr(<<>>),
                  VStr(<<"5","0">>), VStr(<<"H","e","a","t">>),
                  VStr(<<"h","e","a","t">>), VStr(<<"O","F","F">>),
                  VStr(<<"c","O","O","l">>), VStr(<<"A","u","t","o">>),
                  VStr(<<"w","a","r","m">>),
                  VStr(<<"c","o","n","s","t","r","u","c","t","o","r">>)}
            \cup {VObj(h, sat) : h \in field, sat \in field}
        tok == Rep("e", FileMinLen)
        controls ==
            {NewReq("control", SetTo(StrBearer \o tok), "d1", <<>>, TRUE, act, v,
                    NoDevices) : act \in actions, v \in values}
            \cup {NewReq("batch", SetTo(StrBearer \o tok), "", <<>>, TRUE, "", VUndef,
                         RawArray(<<Item("d1", act, v)>>)) :
                    act \in actions, v \in values}
    IN  /\ envToken = Unset
        /\ tokenFile = FileAbsent
        /\ storageWritable = TRUE
        /\ configToken = Unset
        /\ secretsFile = SecretsUnreadable
        /\ authFile = AuthUnreadable
        /\ cfgUser = Unset
        /\ cfgPass = Unset
        /\ InitRest
        /\ req = [s \in Slots |-> IdleReq]
        /\ call \in {[fn |-> "mapType", humanType |-> l] : l \in labels}
                   \cup {[fn |-> "parseAccessories", raw |-> r] : r \in snapshots}
                   \cup {[fn |-> "resolveAction", action |-> act, value |-> v] :
                           act \in actions, v \in values}
                   \cup {[fn |-> "handle", request |-> r, apiToken |-> tok] :
                           r \in controls}
        /\ result = [t |-> "none"]

\* mapType(humanType) returns
CallMapType ==
    /\ call.fn = "mapType" /\ result.t = "none"
    /\ result' = [t |-> "returned", type |-> mapType(call.humanType)]
    /\ UNCHANGED <<call, hostVars, started, apiToken, clientVars, now, ticks, req>>

\* parseAccessories(raw) returns
CallParseAccessories ==
    /\ call.fn = "parseAccessories" /\ result.t = "none"
    /\ result' = [t |-> "returned", devices |-> parseAccessories(call.raw)]
    /\ UNCHANGED <<call, hostVars, started, apiToken, clientVars, now, ticks, req>>

\* resolveAction(action, value) returns
CallResolveAction ==
    /\ call.fn = "resolveAction" /\ result.t = "none"
    /\ result' = [t |-> "returned", resolved |-> resolveAction(call.action, call.value)]
    /\ UNCHANGED <<call, hostVars, started, apiToken, clientVars, now, ticks, req>>

\* A control handler runs up to its response or to its first call of
\* setCharacteristic (then request.pc is "token", with the operations to write).
CallHandle ==
    /\ call.fn = "handle" /\ result.t = "none"
    /\ result' = [t |-> "returned", request |-> Handle(call.request, call.apiToken)]
    /\ UNCHANGED <<call, hostVars, started, apiToken, clientVars, now, ticks, req>>

NextPure == CallMapType \/ CallParseAccessories \/ CallResolveAction \/ CallHandle

SpecPure == InitPure /\ [][NextPure]_vars

-----------------------------------------------------------------------------
(* Claims *)

\* C1: resolveApiToken returns the value and the provenance of the first
\* usable source in the order environment value (any non-empty) > token file
\* (trimmed length >= 16) > config token (length >= 8) > generated; an
\* unusable source falls through to the next layer.
C1_Priority ==
    [][LET envOk == envToken.set /\ envToken.v # <<>>
           fileOk == tokenFile.st = "data" /\ Len(Trim(tokenFile.data)) >= 16
           cfgOk == configToken.set /\ Len(configToken.v) >= 8
       IN  /\ envOk => apiToken' = [token |-> envToken.v, source |-> "env"]
           /\ ~envOk /\ fileOk =>
                apiToken' = [token |-> Trim(tokenFile.data), source |-> "file"]
           /\ ~envOk /\ ~fileOk /\ cfgOk =>
                apiToken' = [token |-> configToken.v, source |-> "config"]
           /\ ~envOk /\ ~fileOk /\ ~cfgOk =>
                apiToken'.source = "auto" /\ Len(apiToken'.token) = 48]_vars

\* A token file of 16 characters or more whose trimmed content is shorter was
\* passed over, and the config token was returned.
C1_Witness ==
    /\ apiToken.source = "config"
    /\ tokenFile.st = "data"
    /\ Len(tokenFile.data) >= 16
    /\ ~envToken.set

\* C2: on every route but /health, a request whose Authorization header is
\* not exactly "Bearer " followed by the resolved API token is answered 401
\* with the fixed body and causes no upstream call; /health is answered
\* whatever the header.
C2_Unauthorized ==
    \A s \in Slots :
        LET r == req[s] IN
        /\ (/\ r.kind \in {"devices", "byType", "device", "control", "batch"}
            /\ r.hdr # [set |-> TRUE, v |-> StrBearer \o apiToken.token])
           => /\ r.pc = "done"
              /\ r.resp = [status |-> 401,
                           body |-> [error |-> "Unauthorized",
                                     message |-> [what |-> "Invalid or missing Bearer token."]]]
              /\ r.trace = <<>>
        /\ (r.kind = "health" /\ r.pc = "done") => r.resp.status = 200

\* A control request with the scheme in lower case was answered 401, and a
\* /health request without a header was answered.
C2_Witness ==
    \E s \in Slots :
        \/ /\ req[s].kind = "control"
           /\ req[s].hdr = SetTo(ToLowerCase(StrBearer) \o apiToken.token)
           /\ req[s].resp.status = 401
           /\ now > 0

\* C3: the mode chosen at construction is direct-sign exactly when a secret
\* key and an administrator username were both read, else credential-login
\* exactly when a username and a password were both declared, else
\* unavailable; and no later step changes it.
C3_AuthMode ==
    /\ [](started =>
            LET direct == /\ secretsFile.st = "json" /\ secretsFile.secretKey # <<>>
                          /\ adminUser.set /\ adminUser.v # <<>>
                declared == /\ cfgUser.set /\ cfgUser.v # <<>>
                            /\ cfgPass.set /\ cfgPass.v # <<>>
            IN  /\ authMode = "jwt-direct" <=> direct
                /\ authMode = "login" <=> (~direct /\ declared)
                /\ authMode = "none" <=> (~direct /\ ~declared)
                /\ adminUser.set <=>
                     (/\ authFile.st = "json" /\ authFile.isArray
                      /\ \E i \in 1..Len(authFile.users) : authFile.users[i].admin))
    /\ [][started => authMode' = authMode]_vars

\* Direct-sign was chosen although a username and a password were declared,
\* and the hub has since refused a call.
C3_Witness ==
    /\ authMode = "jwt-direct"
    /\ Truthy(uiUser) /\ Truthy(uiPass)
    /\ \E s \in Slots : req[s].pc = "done" /\ req[s].resp.status = 502

\* The names that resolveAction's switch has a case for.
ActionTable ==
    {"on", "power", "toggle", "brightness", "dim", "hue", "saturation",
     "color", "colorTemperature", "ct", "targetTemperature", "temperature",
     "thermostatMode", "mode", "lock", "speed", "rotationSpeed", "position",
     "targetPosition", "tilt", "targetTilt", "garageDoor", "garage"}

\* The entries of a write request: the batch's list, or the single control's
\* body under index 0.
EntryIds(r) == IF r.kind = "batch" THEN DOMAIN r.devices.list ELSE {0}
Entry(r, i) ==
    IF r.kind = "batch" THEN r.devices.list[i]
    ELSE [id |-> r.id, action |-> r.action, value |-> r.value]

\* What the UiClient did for entry i of request r, in order.
EventsOf(r, i) == SelectSeq(r.trace, LAMBDA e : e.item = i)
PutsOf(r, i) == SelectSeq(r.trace, LAMBDA e : e.item = i /\ e.ev = "PUT")
Failure(e) == e.ev \in {"answer", "loginAnswer"} /\ ~e.ok

\* C4: a batch is processed entry by entry in the order of the list; the
\* answer holds one result per entry, at the entry's index and with its id;
\* an entry whose action is unknown or whose write failed is reported as
\* failed there, and every later entry with a known action still has its
\* writes attempted.
C4_Batch ==
    \A s \in Slots :
        LET r == req[s] IN
        (r.kind = "batch" /\ r.hasBody /\ r.devices.isArray
            /\ r.hdr = SetTo(StrBearer \o apiToken.token)) =>
        LET list == r.devices.list
            res == IF r.pc = "done" THEN r.resp.body.results ELSE r.results
        IN  /\ r.pc = "done" => r.resp.status = 200 /\ Len(res) = Len(list)
            /\ r.pc # "done" => r.item \in 1..Len(list) /\ Len(res) = r.item - 1
            /\ \A k \in 1..Len(r.trace) :
                  /\ r.trace[k].item \in 1..Len(list)
                  /\ k > 1 => r.trace[k - 1].item <= r.trace[k].item
                  /\ r.pc # "done" => r.trace[k].item <= r.item
            /\ \A i \in 1..Len(res) :
                  /\ res[i].id = list[i].id
                  /\ list[i].action \notin ActionTable =>
                        ~res[i].success /\ EventsOf(r, i) = <<>>
                  /\ list[i].action \in ActionTable =>
                        IF \E k \in 1..Len(r.trace) :
                              r.trace[k].item = i /\ Failure(r.trace[k])
                        THEN ~res[i].success
                        ELSE \/ res[i].success /\ PutsOf(r, i) # <<>>
                             \/ ~res[i].success /\ authMode = "none"

\* The first entry's write was refused by the hub, the second entry's write
\* was made after it and succeeded, and both are in the answer.
C4_Witness ==
    \E s \in Slots :
        /\ req[s].kind = "batch" /\ req[s].pc = "done"
        /\ req[s].resp.status = 200
        /\ Len(req[s].resp.body.results) = 2
        /\ ~req[s].resp.body.results[1].success
        /\ req[s].resp.body.results[2].success
        /\ PutsOf(req[s], 1) # <<>> /\ PutsOf(req[s], 2) # <<>>

\* C5: the writes made for one entry are a prefix of the operations the
\* resolver gave for it, in that order and for that id; a write is followed
\* by its answer before anything else is sent; after a failure nothing more
\* is sent for the entry, the entry is reported as failed (502 for a single
\* control, success = false in a batch), and no write is made beyond the
\* resolved operations, so nothing is undone.
C5_Sequential ==
    \A s \in Slots :
        LET r == req[s] IN
        (r.kind \in {"control", "batch"} /\ r.trace # <<>>) =>
        /\ \A k \in 1..Len(r.trace) :
              /\ (r.trace[k].ev = "PUT" /\ k < Len(r.trace)) =>
                    /\ r.trace[k + 1].ev = "answer"
                    /\ r.trace[k + 1].item = r.trace[k].item
              /\ (r.trace[k].ev = "PUT" /\ k = Len(r.trace)) => r.pc = "call"
              /\ Failure(r.trace[k]) =>
                    /\ \A l \in (k + 1)..Len(r.trace) :
                          r.trace[l].item # r.trace[k].item
                    /\ (r.kind = "control" /\ r.pc = "done") => r.resp.status = 502
                    /\ (r.kind = "control") => r.pc = "done"
                    /\ (r.kind = "batch" /\ r.pc = "done") =>
                          ~r.resp.body.results[r.trace[k].item].success
        /\ \A i \in EntryIds(r) :
              LET puts == PutsOf(r, i)
                  ops == OpsOf(resolveAction(Entry(r, i).action, Entry(r, i).value))
              IN  puts # <<>> =>
                    /\ Len(puts) <= Len(ops)
                    /\ \A k \in 1..Len(puts) :
                          /\ puts[k].id = Entry(r, i).id
                          /\ puts[k].characteristicType = ops[k].characteristicType
                          /\ puts[k].value = ops[k].value

\* A color control wrote Hue, the hub accepted it, then refused Saturation:
\* the answer is 502 and exactly those two writes were made.
C5_Witness ==
    \E s \in Slots :
        /\ req[s].kind = "control" /\ req[s].pc = "done"
        /\ req[s].resp.status = 502
        /\ Len(PutsOf(req[s], 0)) = 2
        /\ PutsOf(req[s], 0)[1].characteristicType = "Hue"
        /\ PutsOf(req[s], 0)[2].characteristicType = "Saturation"
        /\ \E k \in 1..Len(req[s].trace) :
              req[s].trace[k].ev = "answer" /\ req[s].trace[k].ok

\* C6: an authorized single control whose action is missing or is not in the
\* action table is answered 400, and a batch entry whose action is not in the
\* table gets a success = false result; in both cases the UiClient does
\* nothing for it: no credential, no login, no write.
C6_UnknownAction ==
    \A s \in Slots :
        LET r == req[s] IN
        /\ (/\ r.kind = "control"
            /\ r.hdr = SetTo(StrBearer \o apiToken.token)
            /\ (~r.hasBody \/ r.action \notin ActionTable))
           => /\ r.pc = "done"
              /\ r.resp.status = 400
              /\ r.resp.body.error = "Bad Request"
              /\ r.trace = <<>>
        /\ (/\ r.kind = "batch" /\ r.hasBody /\ r.devices.isArray
            /\ r.hdr = SetTo(StrBearer \o apiToken.token))
           => \A i \in 1..Len(r.devices.list) :
                 r.devices.list[i].action \notin ActionTable =>
                    /\ \A k \in 1..Len(r.trace) : r.trace[k].item # i
                    /\ r.pc = "done" =>
                          /\ ~r.resp.body.results[i].success
                          /\ r.resp.body.results[i].error.what = "Unknown action"

\* A batch whose first entry has an unknown action was answered after it had
\* written its second entry.
C6_Witness ==
    \E s \in Slots :
        /\ req[s].kind = "batch" /\ req[s].pc = "done"
        /\ req[s].resp.status = 200
        /\ Len(req[s].devices.list) = 2
        /\ req[s].devices.list[1].action = "dance"
        /\ PutsOf(req[s], 2) # <<>>

\* The credential that a token() call which has just ended handed out.
Handed(r) == IF r.kind = "token" THEN r.ret.tok ELSE r.tok
LastEvent(r) == r.trace[Len(r.trace)]

\* C7: in direct-sign mode a token() call entered before the cached expiry
\* returns the cached credential, signs nothing and leaves the cache as it
\* is; a call entered at or after the cached expiry signs a credential that
\* differs from the cached one, caches it with expiry now + 7 h and returns it.
C7_DirectSign ==
    [][\A s \in Slots :
         (authMode = "jwt-direct" /\ req[s].pc = "token" /\ req'[s].pc # "token") =>
         LET r == req[s]
             q == req'[s]
             sent == IF r.kind = "token" THEN 0 ELSE 1
         IN  IF jwt # [kind |-> "none"] /\ now < jwtExpires
             THEN /\ jwt' = jwt /\ jwtExpires' = jwtExpires
                  /\ Handed(q) = jwt
                  /\ Len(q.trace) = Len(r.trace) + sent
                  /\ \A k \in 1..Len(q.trace) :
                        k > Len(r.trace) => q.trace[k].ev # "sign"
             ELSE /\ jwt' # jwt /\ jwt'.kind = "signed"
                  /\ jwtExpires' = now + 7 * 3600 * 1000
                  /\ Handed(q) = jwt'
                  /\ Len(q.trace) = Len(r.trace) + 1 + sent
                  /\ q.trace[Len(r.trace) + 1].ev = "sign"]_vars

\* A call entered exactly at the cached expiry signed a credential that
\* replaced a cached one, after an earlier call had been served from the cache.
C7_Witness ==
    /\ authMode = "jwt-direct"
    /\ ticks = 2
    /\ \E s \in Slots : \E k \in 1..Len(req[s].trace) :
          /\ req[s].trace[k].ev = "sign"
          /\ req[s].trace[k].replaced # NoJwt
          /\ jwtExpires = now + RefreshMs

\* C8: in credential-login mode a token() call entered with the cache absent
\* or expired makes one login call, and one entered before the cached expiry
\* makes none and returns the cache; after a successful login the cache holds
\* the returned credential with expiry now + (declared expires_in - 60 s),
\* and token() returns that credential.
C8_Login ==
    [][\A s \in Slots :
         LET r == req[s]
             q == req'[s]
         IN  /\ (authMode = "login" /\ r.pc = "token" /\ q.pc # "token") =>
                  IF jwt = [kind |-> "none"] \/ now >= jwtExpires
                  THEN /\ q.pc = "login"
                       /\ q.trace = Append(r.trace, [ev |-> "login", item |-> r.item])
                  ELSE /\ Handed(q) = jwt
                       /\ \A k \in 1..Len(q.trace) :
                             k > Len(r.trace) => q.trace[k].ev # "login"
             /\ (r.pc = "login" /\ q.pc = "loginDone") =>
                  /\ jwt'.kind = "hub"
                  /\ LastEvent(q).expires_in.set =>
                        jwtExpires' = now + (LastEvent(q).expires_in.n - 60) * 1000
             /\ (r.pc = "loginDone" /\ q.pc # "loginDone") =>
                  Handed(q) = jwt /\ jwt' = jwt]_vars

\* C9: in credential-login mode a login call that the hub rejects, or that
\* does not reach it, makes token() throw the login error without a second
\* login call, and leaves the cached credential and the cached expiry as
\* they were; the cache being still absent or expired, the next token() call
\* makes a login call again.
C9_LoginRejected ==
    [][\A s \in Slots :
         LET r == req[s]
             q == req'[s]
         IN  /\ (r.pc = "login" /\ q.pc # "login" /\ q.pc # "loginDone") =>
                  /\ jwt' = jwt /\ jwtExpires' = jwtExpires
                  /\ jwt' = [kind |-> "none"] \/ now >= jwtExpires'
                  /\ Len(q.trace) = Len(r.trace) + 1
                  /\ LastEvent(q).ev = "loginAnswer" /\ ~LastEvent(q).ok
                  /\ r.kind = "token" =>
                        /\ q.pc = "done" /\ q.ret.t = "threw"
                        /\ q.ret.err.what \in {"Config UI login failed", "fetch failed"}
                  /\ r.kind \in {"devices", "byType", "device", "control"} =>
                        /\ q.pc = "done" /\ q.resp.status = 502
                        /\ q.resp.body.message.what \in
                              {"Config UI login failed", "fetch failed"}
             /\ (/\ authMode = "login" /\ r.pc = "token" /\ q.pc # "token"
                 /\ r.trace # <<>> /\ LastEvent(r).ev = "loginAnswer"
                 /\ ~LastEvent(r).ok) =>
                  q.pc = "login" /\ LastEvent(q).ev = "login"]_vars

\* A credential was cached by an earlier login and has expired; the hub
\* rejected the login of a batch's first entry, the cache was kept, and the
\* second entry's token() call made a login call again.
C9_Witness ==
    /\ authMode = "login"
    /\ jwt # NoJwt
    /\ \E s \in Slots : \E k \in 1..Len(req[s].trace) :
          /\ req[s].trace[k].ev = "loginAnswer"
          /\ ~req[s].trace[k].ok
          /\ k < Len(req[s].trace)
          /\ req[s].trace[k + 1].ev = "login"

\* C10: in unavailable mode, in every reachable state, the cache is empty,
\* nothing has been sent to the hub, and every ended call of token(),
\* getAccessories() or setCharacteristic() threw the configuration error.
C10_Unavailable ==
    (started /\ authMode = "none") =>
        /\ jwt = [kind |-> "none"] /\ jwtExpires = 0
        /\ \A s \in Slots :
              LET r == req[s]
                  noAuth == [what |-> "No authentication method available"]
              IN  /\ r.trace = <<>>
                  /\ r.pc \in {"idle", "token", "done"}
                  /\ (r.kind = "token" /\ r.pc = "done") =>
                        r.ret = [t |-> "threw", err |-> noAuth]
                  /\ (r.kind \in {"devices", "byType", "device"} /\ r.pc = "done"
                        /\ r.resp.status # 401) =>
                        r.resp.status = 502 /\ r.resp.body.message = noAuth
                  /\ (r.kind = "health" /\ r.pc = "done") =>
                        r.resp.body.status = "degraded"
                  /\ (r.kind = "control" /\ r.pc = "done"
                        /\ r.resp.status \notin {400, 401}) =>
                        \/ r.resp.status = 502 /\ r.resp.body.message = noAuth
                        \/ /\ r.resp.status = 200
                           /\ OpsOf(resolveAction(r.action, r.value)) = <<>>
                  /\ (r.kind = "batch" /\ r.pc = "done" /\ r.resp.status = 200) =>
                        \A i \in 1..Len(r.resp.body.results) :
                           /\ ~r.resp.body.results[i].success
                           /\ r.devices.list[i].action \in ActionTable =>
                                 r.resp.body.results[i].error = noAuth

\* In unavailable mode a batch of two known actions was answered: both
\* entries failed with the configuration error.
C10_Witness ==
    /\ started /\ authMode = "none"
    /\ \E s \in Slots :
          /\ req[s].kind = "batch" /\ req[s].pc = "done"
          /\ req[s].resp.status = 200
          /\ Len(req[s].resp.body.results) = 2
          /\ req[s].resp.body.results[1].error = ErrNoAuth
          /\ req[s].resp.body.results[2].error = ErrNoAuth

\* How many read and write calls, and how many login calls, a trace holds.
Calls(tr) == Cardinality({k \in 1..Len(tr) : tr[k].ev \in {"GET", "PUT"}})
Logins(tr) == Cardinality({k \in 1..Len(tr) : tr[k].ev = "login"})

\* C11 (as amended): an invocation of getAccessories or setCharacteristic
\* sends exactly one read or write call when token() hands it a credential,
\* after at most one login call, and none when token() throws; the answer
\* ends the invocation whatever it is, a failed call is not sent again, and
\* the writes of an entry never outnumber its resolved operations.
C11_AtMostOneCall ==
    /\ [](\A s \in Slots :
            LET r == req[s] IN
            /\ r.kind \in {"health", "devices", "byType", "device"} =>
                  Calls(r.trace) <= 1 /\ Logins(r.trace) <= 1
            /\ (r.kind \in {"control", "batch"} /\ r.trace # <<>>) =>
                  \A i \in EntryIds(r) :
                     \/ PutsOf(r, i) = <<>>
                     \/ Len(PutsOf(r, i)) <=
                           Len(OpsOf(resolveAction(Entry(r, i).action,
                                                   Entry(r, i).value))))
    /\ [][\A s \in Slots :
            LET r == req[s]
                q == req'[s]
            IN  /\ (r.pc \in {"token", "loginDone"} /\ q.pc = "call") =>
                      /\ Calls(q.trace) = Calls(r.trace) + 1
                      /\ Logins(q.trace) = Logins(r.trace)
                /\ (r.pc = "token" /\ q.pc = "login") =>
                      /\ Calls(q.trace) = Calls(r.trace)
                      /\ Logins(q.trace) = Logins(r.trace) + 1
                /\ (r.pc \in {"token", "login"} /\ q.pc \in {"done", "token"}
                        /\ q # r /\ r.kind # "token") =>
                      /\ Calls(q.trace) = Calls(r.trace)
                      /\ Logins(q.trace) = Logins(r.trace)
                      /\ r.kind = "batch" => q.item > r.item
                      /\ r.kind # "batch" => q.pc = "done"
                /\ (r.pc = "call" /\ q # r) =>
                      /\ q.pc \in {"done", "token"}
                      /\ Calls(q.trace) = Calls(r.trace)
                      /\ Logins(q.trace) = Logins(r.trace)
                      /\ ~LastEvent(q).ok =>
                            /\ r.kind = "batch" => q.item > r.item
                            /\ r.kind # "batch" => q.pc = "done"]_vars

\* In login mode a snapshot read logged in once, sent one read, was refused
\* by the hub and ended in 502 without a second read.
C11_Witness ==
    \E s \in Slots :
        /\ req[s].kind = "devices" /\ req[s].pc = "done"
        /\ req[s].resp.status = 502
        /\ Len(req[s].trace) = 4
        /\ req[s].trace[1].ev = "login"
        /\ req[s].trace[3].ev = "GET"
        /\ req[s].trace[4].ev = "answer" /\ ~req[s].trace[4].ok

\* C11 (as stated): every ended invocation of getAccessories or
\* setCharacteristic has sent exactly one read or write call, in every mode
\* and cache state: a snapshot read, or a control that resolves to a single
\* operation, has exactly one call in its trace when it is answered.
C11_ExactlyOneCall ==
    \A s \in Slots :
        LET r == req[s] IN
        (/\ r.pc = "done"
         /\ \/ r.kind = "health"
            \/ /\ r.hdr = SetTo(StrBearer \o apiToken.token)
               /\ \/ r.kind \in {"devices", "byType", "device"}
                  \/ /\ r.kind = "control" /\ r.hasBody
                     /\ resolveAction(r.action, r.value).t = "op")
        => Calls(r.trace) = 1

\* The error that the answer to request r reports for entry i.
ReportedError(r, i) ==
    IF r.kind = "batch" THEN r.resp.body.results[i].error ELSE r.resp.body.message

\* C12: when the hub answers a snapshot read or a characteristic write with a
\* non-success status, the error that the call throws, as the route reports
\* it, carries that status and that response body.
C12_StatusAndBody ==
    \A s \in Slots :
        LET r == req[s] IN
        (r.pc = "done" /\ r.kind \in {"devices", "byType", "device", "control", "batch"}) =>
        \A k \in 1..Len(r.trace) :
            LET e == r.trace[k] IN
            (e.ev = "answer" /\ ~e.ok /\ "status" \in DOMAIN e) =>
                LET err == ReportedError(r, e.item) IN
                /\ "status" \in DOMAIN err /\ err.status = e.status
                /\ "text" \in DOMAIN err /\ err.text = e.text

\* C13: when two token() calls are in flight together and interleave at the
\* awaits of the login call, the cached credential and the cached expiry
\* always come from one and the same sign or login answer, the cache changes
\* only on such an answer, a call that returns hands out a credential issued
\* by a sign or a successful login (the cached one), and each call makes at
\* most one login call.
C13_BenignRace ==
    /\ [](/\ \/ jwt = [kind |-> "none"] /\ jwtExpires = 0
             \/ jwt.kind = "signed" /\ jwtExpires = jwt.iat * 1000 + 7 * 3600 * 1000
             \/ /\ jwt.kind = "hub"
                /\ \E e \in ExpiresIns :
                      jwtExpires = jwt.iat * 1000
                         + ((IF e.set /\ e.n # 0 THEN e.n ELSE 28800) - 60) * 1000
          /\ \A s \in RaceSlots :
                /\ Logins(req[s].trace) <= 1
                /\ (req[s].pc = "done" /\ req[s].ret.t = "returned") =>
                      /\ req[s].ret.tok.kind \in {"signed", "hub"}
                      /\ req[s].ret.tok.iat * 1000 <= now
                      /\ req[s].ret.tok.username =
                            (IF authMode = "login" THEN uiUser.v ELSE adminUser.v))
    /\ [][/\ (jwt' # jwt \/ jwtExpires' # jwtExpires) =>
                /\ jwt'.kind \in {"signed", "hub"}
                /\ jwt'.iat * 1000 = now
                /\ \E s \in RaceSlots :
                      \/ req[s].pc = "login" /\ req'[s].pc = "loginDone"
                      \/ req[s].pc = "token" /\ req'[s].pc = "done"
          /\ \A s \in RaceSlots :
                (req[s].pc \in {"token", "loginDone"} /\ req'[s].pc = "done"
                    /\ req'[s].ret.t = "returned") =>
                   req'[s].ret.tok = jwt']_vars

\* Two calls both found the cache absent or expired and both logged in; the
\* hub gave them different lifetimes, and the cache holds the answer that
\* came last, after time had passed.
C13_Witness ==
    /\ req[1].pc = "loginDone" /\ req[2].pc = "loginDone"
    /\ LastEvent(req[1]).expires_in # LastEvent(req[2]).expires_in
    /\ jwt.iat * 1000 = now /\ ticks > 0

\* C14: a pass that reaches the generated layer, and whose write succeeds,
\* leaves the generated token in the token file; the next pass on that host,
\* which has no environment value, returns the same token value with source
\* 'file'.
C14_RoundTrip ==
    [][/\ (apiToken'.source = "auto" /\ storageWritable) =>
             /\ tokenFile'.st = "data"
             /\ Trim(tokenFile'.data) = apiToken'.token
       /\ (apiToken.source = "auto" /\ storageWritable) =>
             /\ ~(envToken.set /\ envToken.v # <<>>)
             /\ apiToken' = [token |-> apiToken.token, source |-> "file"]
             /\ tokenFile' = tokenFile]_vars

\* A second pass returned from the token file the 48 characters that the
\* first pass had generated, on a host whose config token is set but unusable.
C14_Witness ==
    /\ apiToken.source = "file"
    /\ Len(apiToken.token) = 48
    /\ tokenFile = [st |-> "data", data |-> apiToken.token \o <<"\n">>]
    /\ configToken.set

\* C15: every pass returns a non-empty token from one of the four sources,
\* whatever the environment, the token file (absent, unreadable, too short),
\* the config and the secret material are; when no layer above the generated
\* one is usable and the token file cannot be written, the pass returns the
\* generated token with source 'auto' and leaves the file as it was.
C15_NeverFails ==
    [][/\ apiToken'.source \in {"env", "file", "config", "auto"}
       /\ apiToken'.token # <<>>
       /\ (/\ ~storageWritable
           /\ ~(envToken.set /\ envToken.v # <<>>)
           /\ ~(tokenFile.st = "data" /\ Len(Trim(tokenFile.data)) >= 16)
           /\ ~(configToken.set /\ Len(configToken.v) >= 8)) =>
             /\ apiToken' = [token |-> Generated(secretsFile), source |-> "auto"]
             /\ Len(apiToken'.token) = 48
             /\ tokenFile' = tokenFile]_vars

\* The token file could be neither read nor written, the secret material
\* could not be read, and the generated token was returned all the same.
C15_Witness ==
    /\ apiToken.source = "auto"
    /\ ~storageWritable
    /\ tokenFile.st = "unreadable"
    /\ secretsFile.st = "unreadable"

\* The keyword table of the type classification, in its order: the keyword
\* looked for and the canonical type it stands for.
KeywordTable ==
    <<<<(<<"l","i","g","h","t">>), (<<"l","i","g","h","t","b","u","l","b">>)>>,
      <<(<<"b","u","l","b">>), (<<"l","i","g","h","t","b","u","l","b">>)>>,
      <<(<<"s","w","i","t","c","h">>), (<<"s","w","i","t","c","h">>)>>,
      <<(<<"o","u","t","l","e","t">>), (<<"o","u","t","l","e","t">>)>>,
      <<(<<"t","h","e","r","m","o","s","t","a","t">>), (<<"t","h","e","r","m","o","s","t","a","t">>)>>,
      <<(<<"l","o","c","k">>), (<<"l","o","c","k">>)>>,
      <<(<<"f","a","n">>), (<<"f","a","n">>)>>,
      <<(<<"w","i","n","d","o","w">>), (<<"b","l","i","n","d","s">>)>>,
      <<(<<"b","l","i","n","d">>), (<<"b","l","i","n","d","s">>)>>,
      <<(<<"c","o","v","e","r","i","n","g">>), (<<"b","l","i","n","d","s">>)>>,
      <<(<<"g","a","r","a","g","e">>), (<<"g","a","r","a","g","e">>)>>,
      <<(<<"m","o","t","i","o","n">>), (<<"m","o","t","i","o","n">>)>>,
      <<(<<"t","e","m","p","e","r","a","t","u","r","e">>), (<<"s","e","n","s","o","r">>)>>,
      <<(<<"h","u","m","i","d","i","t","y">>), (<<"s","e","n","s","o","r">>)>>,
      <<(<<"c","o","n","t","a","c","t">>), (<<"s","e","n","s","o","r">>)>>,
      <<(<<"c","a","m","e","r","a">>), (<<"c","a","m","e","r","a">>)>>>>

\* The entries of the table whose keyword the label contains, whatever the
\* case of the label's letters.
Matches(label) ==
    {i \in DOMAIN KeywordTable : Includes(ToLowerCase(label), KeywordTable[i][1])}

\* C17: mapType returns the canonical type of the earliest entry of the
\* keyword table whose keyword the label contains, whatever the case of the
\* label's letters, and 'other' when it contains none.
C17_FirstMatch ==
    (call.fn = "mapType" /\ result.t = "returned") =>
        LET hits == Matches(call.humanType) IN
        IF hits = {} THEN result.type = <<"o","t","h","e","r">>
        ELSE \E i \in hits :
                /\ \A j \in hits : i <= j
                /\ result.type = KeywordTable[i][2]

\* 'Switch Light' holds both keywords, the later-listed one first: lightbulb.
C17_Witness ==
    /\ call.fn = "mapType" /\ result.t = "returned"
    /\ call.humanType = <<"S","w","i","t","c","h"," ","L","i","g","h","t">>
    /\ Matches(call.humanType) = {1, 3}
    /\ result.type = <<"l","i","g","h","t","b","u","l","b">>

\* A snapshot record that is to be kept: it has a stable id, its type label is
\* not a structural one, and its display name differs, whatever the case of
\* its letters, from the name the gateway registers itself under.
Kept(svc) ==
    /\ svc.uniqueId # ""
    /\ SvcType(svc) \notin {StrAccessoryInformation, StrProtocolInformation}
    /\ ToLowerCase(SvcName(svc)) # ToLowerCase(ACCESSORY_NAME)

\* C16: parseAccessories returns one record for each snapshot record that is
\* to be kept (stable id, no structural type, display name other than the
\* gateway's registered name), in the order of the snapshot, and none for any
\* other record.
C16_KeepsAllButSelf ==
    (call.fn = "parseAccessories" /\ result.t = "returned") =>
        LET list == IF call.raw.isArray THEN call.raw.list ELSE <<>>
            kept == SelectSeq(list, Kept)
        IN  /\ Len(result.devices) = Len(kept)
            /\ \A i \in 1..Len(kept) :
                  /\ result.devices[i].id = kept[i].uniqueId
                  /\ result.devices[i].name = SvcName(kept[i])

\* The range-valued actions and the inclusive bounds of each.
Ranges ==
    [brightness |-> <<0, 100>>, dim |-> <<0, 100>>, hue |-> <<0, 360>>,
     saturation |-> <<0, 100>>, speed |-> <<0, 100>>, rotationSpeed |-> <<0, 100>>,
     position |-> <<0, 100>>, targetPosition |-> <<0, 100>>,
     tilt |-> <<0 - 90, 90>>, targetTilt |-> <<0 - 90, 90>>]

\* C18: for a range-valued action and a number, resolveAction returns exactly
\* one operation, whose value is the number when it lies within the action's
\* bounds and the nearest bound otherwise; it never returns the unresolved
\* result for a number out of range.
C18_Clamped ==
    (/\ call.fn = "resolveAction" /\ result.t = "returned"
     /\ call.action \in DOMAIN Ranges
     /\ call.value.t = "number") =>
        LET low == Ranges[call.action][1]
            high == Ranges[call.action][2]
            n == call.value.n
        IN  /\ result.resolved.t = "op"
            /\ result.resolved.op.value =
                  VNum(IF n < low THEN low ELSE IF n > high THEN high ELSE n)

\* tilt of -91 is brought to -90, the lower bound
C18_Witness ==
    /\ call.fn = "resolveAction" /\ result.t = "returned"
    /\ call.action = "tilt" /\ call.value = VNum(0 - 91)
    /\ result.resolved = ROne(Op("TargetHorizontalTiltAngle", VNum(0 - 90)))

\* C19: for the action 'color', resolveAction returns a sequence holding one
\* Hue operation exactly when the value has a hue field and one Saturation
\* operation exactly when it has a saturation field, each with the number of
\* its field, Hue before Saturation, and nothing else; a value that is no
\* structure has neither field.
C19_PresentFieldsOnly ==
    (call.fn = "resolveAction" /\ result.t = "returned" /\ call.action = "color") =>
        LET v == call.value
            hasHue == v.t = "object" /\ v.hue # VUndef
            hasSat == v.t = "object" /\ v.saturation # VUndef
        IN  /\ result.resolved.t = "array"
            /\ result.resolved.ops =
                  (IF hasHue THEN <<Op("Hue", ToNumber(v.hue))>> ELSE <<>>)
                  \o (IF hasSat THEN <<Op("Saturation", ToNumber(v.saturation))>>
                      ELSE <<>>)
            /\ Len(result.resolved.ops) =
                  (IF hasHue THEN 1 ELSE 0) + (IF hasSat THEN 1 ELSE 0)

\* {hue: 240} yields the one operation Hue = 240
C19_Witness ==
    /\ call.fn = "resolveAction" /\ result.t = "returned"
    /\ call.action = "color" /\ call.value = VObj(VNum(240), VUndef)
    /\ result.resolved = RArray(<<Op("Hue", VNum(240))>>)

\* C20: resolveAction returns the unresolved result exactly for the action
\* names that are not in the action table.  The action 'color' with neither
\* sub-field resolves to an empty sequence of operations, and the control
\* handlers take it as resolved: the single control answers 200 with success
\* and no write results, the batch reports success for the entry, and neither
\* calls the UiClient.
C20_EmptyIsResolved ==
    /\ (call.fn = "resolveAction" /\ result.t = "returned") =>
          /\ (result.resolved.t = "null") <=> (call.action \notin ActionTable)
          /\ (/\ call.action = "color"
              /\ FieldHue(call.value) = VUndef
              /\ FieldSaturation(call.value) = VUndef)
             => result.resolved = RArray(<<>>)
    /\ (call.fn = "handle" /\ result.t = "returned") =>
          LET r == result.request
              e == Entry(call.request, IF call.request.kind = "batch" THEN 1 ELSE 0)
          IN  (/\ e.action = "color"
               /\ FieldHue(e.value) = VUndef
               /\ FieldSaturation(e.value) = VUndef)
              => /\ r.pc = "done"
                 /\ r.resp.status = 200
                 /\ r.resp.body.success
                 /\ r.trace = <<>>
                 /\ r.kind = "control" => r.resp.body.results = <<>>
                 /\ r.kind = "batch" =>
                        r.resp.body.results = <<[id |-> e.id, success |-> TRUE]>>

\* a single control {action: 'color', value: {}} was answered with success
C20_Witness ==
    /\ call.fn = "handle" /\ result.t = "returned"
    /\ call.request.kind = "control"
    /\ call.request.action = "color"
    /\ call.request.value = VObj(VUndef, VUndef)
    /\ result.request.pc = "done"
    /\ result.request.resp.status = 200
    /\ result.request.resp.body.results = <<>>

\* C21: for the actions thermostatMode and mode, resolveAction returns one
\* TargetHeatingCoolingState operation whose value is 0, 1, 2, 3 when the
\* input reads off, heat, cool, auto in any capitalisation, and the numeric
\* parse of the input for every other input.
C21_ModeOrNumber ==
    (/\ call.fn = "resolveAction" /\ result.t = "returned"
     /\ call.action \in {"thermostatMode", "mode"}) =>
        LET label == ToLowerCase(JsString(call.value))
            expected ==
                CASE label = <<"o","f","f">> -> VNum(0)
                  [] label = <<"h","e","a","t">> -> VNum(1)
                  [] label = <<"c","o","o","l">> -> VNum(2)
                  [] label = <<"a","u","t","o">> -> VNum(3)
                  [] OTHER -> ToNumber(call.value)
        IN  result.resolved = ROne(Op("TargetHeatingCoolingState", expected))

\* C26: every Hue operation that resolveAction returns carries a number
\* within 0..360 and every Saturation operation a number within 0..100,
\* whichever action it was returned for.
C26_HueSaturationInRange ==
    (/\ call.fn = "resolveAction" /\ result.t = "returned"
     /\ result.resolved.t # "null") =>
        LET ops == OpsOf(result.resolved) IN
        \A i \in 1..Len(ops) :
            /\ ops[i].characteristicType = "Hue" =>
                  /\ ops[i].value.t = "number"
                  /\ ops[i].value.n >= 0 /\ ops[i].value.n <= 360
            /\ ops[i].characteristicType = "Saturation" =>
                  /\ ops[i].value.t = "number"
                  /\ ops[i].value.n >= 0 /\ ops[i].value.n <= 100

\* C24: a pass of resolveApiToken that takes the token from the environment,
\* from the token file or from the config leaves the token file as it was
\* (absent, unreadable, or with its content); only a pass that generates the
\* token may change it; and no pass changes the environment value, the config
\* token or the secret material.
C24_WriteOnlyWhenGenerated ==
    [][/\ apiToken'.source \in {"env", "file", "config"} => tokenFile' = tokenFile
       /\ tokenFile' # tokenFile => apiToken'.source = "auto"
       /\ envToken' = envToken
       /\ configToken' = configToken
       /\ secretsFile' = secretsFile]_vars

\* The token was taken from the config on a writable host whose token file is
\* too short to be used: the file still holds its short content.
C24_Witness ==
    /\ apiToken.source = "config"
    /\ storageWritable
    /\ tokenFile.st = "data"
    /\ Len(Trim(tokenFile.data)) < FileMinLen

\* C22: a GET /health that has ended was answered 200, whatever the
\* Authorization header, the auth mode and the hub's answers were: with
\* status 'ok' and the number of devices of the snapshot when the snapshot
\* read was answered with success, and with status 'degraded' and 0 devices
\* in every other case (no auth method, login rejected or unanswered, read
\* rejected or unanswered).
C22_HealthNeverErrors ==
    \A s \in Slots :
        LET r == req[s] IN
        (r.kind = "health" /\ r.pc = "done") =>
            /\ r.resp.status = 200
            /\ IF r.trace # <<>> /\ LastEvent(r).ev = "answer" /\ LastEvent(r).ok
               THEN /\ r.resp.body.status = "ok"
                    /\ r.resp.body.devices = Len(parseAccessories(LastEvent(r).data))
               ELSE /\ r.resp.body.status = "degraded"
                    /\ r.resp.body.devices = 0

\* A /health without Authorization header, in credential-login mode, whose
\* login the hub rejected: answered 200, degraded.
C22_Witness ==
    \E s \in Slots :
        /\ req[s].kind = "health" /\ req[s].pc = "done"
        /\ ~req[s].hdr.set
        /\ authMode = "login"
        /\ req[s].trace # <<>>
        /\ LastEvent(req[s]).ev = "loginAnswer" /\ ~LastEvent(req[s]).ok
        /\ req[s].resp.status = 200
        /\ req[s].resp.body.status = "degraded"

\* C23: the cached expiry of a credential is strictly earlier than the instant
\* at which the credential stops being valid: the exp claim of a credential
\* signed by the UiClient, and, for a credential returned by a login, the
\* login instant plus the expires_in that the hub declared (8 h when it
\* declared none), whatever that value is.
C23_ExpiryBeforeValidityEnd ==
    /\ [](jwt.kind = "signed" => jwtExpires < jwt.exp * 1000)
    /\ [][\A s \in Slots :
            (req[s].pc = "login" /\ req'[s].pc = "loginDone") =>
                LET e == LastEvent(req'[s]).expires_in
                    declared == IF e.set THEN e.n ELSE DefaultExpiresIn
                IN  jwtExpires' < now + declared * 1000]_vars

\* C25: a step in which the hub answers a snapshot read or a characteristic
\* write without success (a rejection of the credential included) leaves the
\* cached credential and its cached expiry as they were; the cache changes
\* only when a credential is signed or a login succeeds, the cache being
\* absent or at or past its cached expiry; and a call made while the cache is
\* present and before its cached expiry presents the cached credential.
C25_FailureKeepsCache ==
    [][\A s \in Slots :
         LET r == req[s]
             q == req'[s]
             grown == Len(q.trace) > Len(r.trace)
             new == q.trace[Len(r.trace) + 1]
         IN  /\ (r.pc = "call" /\ grown /\ new.ev = "answer" /\ ~new.ok) =>
                  jwt' = jwt /\ jwtExpires' = jwtExpires
             /\ (jwt' # jwt \/ jwtExpires' # jwtExpires) =>
                  /\ jwt = NoJwt \/ now >= jwtExpires
                  /\ grown
                  /\ new.ev = "sign" \/ (new.ev = "loginAnswer" /\ new.ok)
             /\ (r.pc = "token" /\ q.pc = "call" /\ jwt # NoJwt /\ now < jwtExpires) =>
                  /\ LastEvent(q).tok = jwt
                  /\ jwt' = jwt /\ jwtExpires' = jwtExpires]_vars

\* The hub rejected a batch's first write with 401; the second entry's write
\* presented the same credential, which is still the cached one.
C25_Witness ==
    \E s \in Slots : \E k \in 2..Len(req[s].trace) :
        /\ req[s].trace[k].ev = "answer" /\ ~req[s].trace[k].ok
        /\ "status" \in DOMAIN req[s].trace[k] /\ req[s].trace[k].status = 401
        /\ req[s].trace[k - 1].ev = "PUT"
        /\ k < Len(req[s].trace)
        /\ req[s].trace[k + 1].ev = "PUT"
        /\ req[s].trace[k + 1].tok = req[s].trace[k - 1].tok
        /\ jwt = req[s].trace[k - 1].tok

=========================================================================
